---- MODULE Spec2Model ----
(***************************************************************************)
(* tinysh: the command-pipeline execution engine of src/unnamed/part_000   *)
(* (the current tinysh.c).  One line of input is tokenized, classified,    *)
(* split around its first operator and run by a tree of processes whose    *)
(* descriptors are wired through pipes and files.                          *)
(*                                                                         *)
(* Process 0 is the shell.  Every other process is created by fork() and   *)
(* runs tinysh's own code (st = "code") until execvp replaces its image    *)
(* (st = "image") or it leaves through _Exit in exec_dispatch's child      *)
(* branch (st = "zombie").  Each system call is one step and may fail.     *)
(***************************************************************************)
EXTENDS Integers, Sequences, FiniteSets, TLC

\* ------------------------------------------------------------- bounds
MaxStages == 3      \* longest generated pipe chain
MaxWrite  == 3      \* bytes one launched program writes at most
PipeCap   == 2      \* bytes a pipe buffers before a writer blocks
MaxFile   == 4      \* bytes a file holds at most
MaxProcs  == 4      \* process-table slots besides the shell
MaxFd     == 5      \* highest descriptor number of a process
MaxLine   == 4      \* longest generated line of characters
MaxSide   == 3      \* most tokens before, and after, the first operator

\* ------------------------------------------------------ program constants
STDIN_FILENO  == 0
STDOUT_FILENO == 1
STDERR_FILENO == 2
EXIT_SUCCESS  == 0
EXIT_FAILURE  == 1

\* ------------------------------------------------------------- text
\* A line is a sequence of characters; a token is a sequence of characters.
\* The delimiters without the tab.
DelimNoTab == {" ", "\n"}

Delim == {" ", "\t", "\n"}

PIPE      == <<"|">>
OVERWRITE == <<">">>
APPEND    == <<">", ">">>
EXIT      == <<"e", "x", "i", "t">>
VERBOSE   == <<"v", "e", "r", "b", "o", "s", "e">>
BRIEF     == <<"b", "r", "i", "e", "f">>
PWD       == <<"p", "w", "d">>
CD        == <<"c", "d">>

\* The environment the shell runs in: the names execvp resolves through the
\* inherited search path, the directory that holds these programs, and the
\* names that exist but cannot be executed.
Launchable == {<<"a">>, <<"b">>, <<"c">>}
NoPerm     == {<<"x">>}
Dir        == <<"d", "/">>

Range(s) == {s[i] : i \in 1..Len(s)}

\* A lookup that finds the program in whatever directory holds it.
ResolvesByName(file) ==
  \E n \in Launchable :
    Len(file) >= Len(n) /\ SubSeq(file, Len(file) - Len(n) + 1, Len(file)) = n

\* execvp(file, argv) replaces the image: a file with a slash is taken as it
\* is, any other is looked up in the inherited search path.
Resolves(file) ==
  IF "/" \in Range(file) THEN \E n \in Launchable : file = Dir \o n
  ELSE file \in Launchable

\* strtok_r loop of tokenizer: skip delimiters, then cut the maximal run of
\* non-delimiter characters; `cur` is the token being cut, `acc` the tokens.
RECURSIVE Scan(_, _, _, _)
Scan(input, i, cur, acc) ==
  IF i > Len(input)
    THEN IF cur = <<>> THEN acc ELSE Append(acc, cur)
    ELSE IF input[i] \in Delim
           THEN Scan(input, i + 1, <<>>, IF cur = <<>> THEN acc ELSE Append(acc, cur))
           ELSE Scan(input, i + 1, Append(cur, input[i]), acc)

tokenizer(input) == Scan(input, 1, <<>>, <<>>)

IsOp(tok) == tok = PIPE \/ tok = OVERWRITE \/ tok = APPEND

\* A classification by kind of operator: any `>>` wins, then any `>`.
FeatureByKind(cmd, i) ==
  IF \E k \in i..Len(cmd) : cmd[k] = <<">", ">">> THEN 1
  ELSE IF \E k \in i..Len(cmd) : cmd[k] = <<">">> THEN 2
  ELSE IF \E k \in i..Len(cmd) : cmd[k] = <<"|">> THEN 3
  ELSE 0

\* 0 none, 1 append, 2 overwrite, 3 pipe: the first operator token decides.
RECURSIVE FeatureFrom(_, _)
FeatureFrom(cmd, i) ==
  IF i > Len(cmd) THEN 0
  ELSE IF cmd[i] = APPEND THEN 1
  ELSE IF cmd[i] = OVERWRITE THEN 2
  ELSE IF cmd[i] = PIPE THEN 3
  ELSE FeatureFrom(cmd, i + 1)

is_special_feature(cmd) == FeatureFrom(cmd, 1)

\* Index of the first operator token (special_command's first loop stops there).
RECURSIVE FirstOp(_, _)
FirstOp(cmd, i) ==
  IF i > Len(cmd) THEN i
  ELSE IF IsOp(cmd[i]) THEN i
  ELSE FirstOp(cmd, i + 1)

\* A head that runs up to the last operator instead of the first.
HeadToLastOp(cmd) ==
  LET ops == {i \in 1..Len(cmd) : IsOp(cmd[i])}
  IN  IF ops = {} THEN cmd
      ELSE SubSeq(cmd, 1, (CHOOSE i \in ops : \A j \in ops : j <= i) - 1)

HeadOf(cmd) == SubSeq(cmd, 1, FirstOp(cmd, 1) - 1)

\* A tail loop that stops at the next operator instead of at the NULL.
TailToNextOp(cmd) ==
  LET rest == SubSeq(cmd, FirstOp(cmd, 1) + 1, Len(cmd))
  IN  SubSeq(rest, 1, FirstOp(rest, 1) - 1)

\* A tail that begins after the last operator instead of the first.
TailAfterLastOp(cmd) ==
  LET ops == {i \in 1..Len(cmd) : IsOp(cmd[i])}
  IN  IF ops = {} THEN <<>>
      ELSE SubSeq(cmd, (CHOOSE i \in ops : \A j \in ops : j <= i) + 1, Len(cmd))

TailOf(cmd) == SubSeq(cmd, FirstOp(cmd, 1) + 1, Len(cmd))

\* ------------------------------------------------------------- state
VARIABLES
  procs,   \* process table: 0 is the shell, 1..MaxProcs are forked processes
  pipes,   \* pipes[i]: the i-th pipe created for this command line
  files,   \* files[name]: the content of each file that exists
  term,    \* kinds of message shown on the terminal in this prompt cycle
  driver,  \* the driver's locals, the process-wide configuration, and the
           \* frames of the tokenizer calls in progress
  hist     \* what happened in this prompt cycle (observation only)

vars == <<procs, pipes, files, term, driver, hist>>

Pids == 1..MaxProcs
Fds  == 0..MaxFd

\* An entry of a descriptor table.
Closed        == [k |-> "closed", pi |-> 0, fn |-> <<>>, app |-> FALSE, off |-> 0]
Tty           == [k |-> "tty", pi |-> 0, fn |-> <<>>, app |-> FALSE, off |-> 0]
PipeR(i)      == [k |-> "r", pi |-> i, fn |-> <<>>, app |-> FALSE, off |-> 0]
PipeW(i)      == [k |-> "w", pi |-> i, fn |-> <<>>, app |-> FALSE, off |-> 0]
FileD(n, app) == [k |-> "file", pi |-> 0, fn |-> n, app |-> app, off |-> 0]

\* A byte: what it is ("data" of a launched program, a message of the shell,
\* "old" for a byte a file held when the prompt cycle began), its position in
\* its writer's output (in the file, for an old byte), and the writing process.
Byte(c, n, by) == [c |-> c, n |-> n, by |-> by]
Nul            == Byte("nul", 0, 0)

\* A pipe: the bytes buffered in it and the number of bytes read from it so far.
NewPipe == [buf |-> <<>>, nread |-> 0]

\* What wait() reports about a process: how it ended, exit code, signal.
NoStatus == [how |-> "none", code |-> 0, sig |-> ""]

\* The locals of a special_command call: the token count it was given, its
\* three indices, the shared capacity, the two arrays as stored so far with
\* the number of elements allocated for each, and whether a store went
\* outside its array.
NoFrame ==
  [num_cmd |-> 0, i |-> 0, j |-> 0, k |-> 0, capacity |-> 0,
   head |-> <<>>, tail |-> <<>>, size |-> [head |-> 0, tail |-> 0], ub |-> FALSE]

FreeProc ==
  [st |-> "free", pc |-> "", fds |-> [fd \in Fds |-> Closed], sc |-> NoFrame,
   cmd |-> <<>>, head |-> <<>>, tail |-> <<>>, type |-> 0, argv |-> <<>>,
   pipefd |-> [r |-> 0, w |-> 0], fd |-> 0,
   saved_stdout |-> 0, stdout_flag |-> FALSE, verbose_flag |-> FALSE,
   child |-> 0, parent |-> 0, status |-> NoStatus, nw |-> 0, eof |-> FALSE]

StdFds == [fd \in Fds |-> IF fd <= STDERR_FILENO THEN Tty ELSE Closed]

Alive(P, p) == P[p].st \in {"code", "image"}

\* Lowest unused descriptor number, MaxFd + 1 when the table is full.
LowFd(f) ==
  IF \E fd \in Fds : f[fd].k = "closed"
    THEN CHOOSE fd \in Fds : f[fd].k = "closed" /\ \A g \in Fds : g < fd => f[g].k # "closed"
    ELSE MaxFd + 1

\* A close that leaves the descriptor open.
LeaveOpen(f, fd) == f

\* close(fd) on a descriptor table.
CloseFd(f, fd) == [f EXCEPT ![fd] = Closed]

\* dup2(from, to) on a descriptor table.
Dup2(f, from, to) == [f EXCEPT ![to] = f[from]]

\* Processes holding the read (write) end of pipe i.
Readers(P, i) == {p \in DOMAIN P : Alive(P, p) /\ \E fd \in Fds : P[p].fds[fd] = PipeR(i)}
Writers(P, i) == {p \in DOMAIN P : Alive(P, p) /\ \E fd \in Fds : P[p].fds[fd] = PipeW(i)}

\* write(2) of one byte on a regular file: at the end with O_APPEND, at the
\* description's offset without; no room left: nothing is written.
WriteAt(data, d, b) ==
  IF d.app THEN (IF Len(data) < MaxFile THEN Append(data, b) ELSE data)
  ELSE IF d.off < Len(data) THEN [data EXCEPT ![d.off + 1] = b]
  ELSE IF d.off < MaxFile
    THEN data \o [i \in 1..(d.off - Len(data)) |-> Nul] \o <<b>>
    ELSE data

\* The world a message can land in.
World == [term |-> term, pipes |-> pipes, files |-> files]

\* printf/dprintf/perror of message m on the open description d: it lands
\* wherever d refers to.
Say(w, d, m) ==
  IF d.k = "tty" THEN [w EXCEPT !.term = @ \cup {m}]
  ELSE IF d.k = "w" THEN [w EXCEPT !.pipes[d.pi].buf = Append(@, Byte(m, 0, 0))]
  ELSE IF d.k = "file"
    THEN [w EXCEPT !.files[d.fn] = WriteAt(@, d, Byte(m, 0, 0))]
  ELSE w

\* A verbose-mode progress message: printed only when verbose_flag is set.
Info(w, r, fd) == IF r.verbose_flag THEN Say(w, r.fds[fd], "info") ELSE w

Perror(w, r) == Say(w, r.fds[STDERR_FILENO], "perror")

\* The kernel frees a pipe once no process holds a descriptor of it.
Settle(P, pp) ==
  [i \in DOMAIN pp |-> IF Readers(P, i) \cup Writers(P, i) = {} THEN NewPipe ELSE pp[i]]

\* The world after a step (procs' is set before this is used).
SetWorld(w) == term' = w.term /\ pipes' = Settle(procs', w.pipes) /\ files' = w.files

Quiet == SetWorld(World)

\* _Exit(code): the process ends and the kernel closes its descriptors.
Exited(r, code) ==
  [FreeProc EXCEPT !.st = "zombie", !.parent = r.parent,
                   !.status = [how |-> "exit", code |-> code, sig |-> ""]]

\* A signal ends the process.
Killed(r, sig) ==
  [FreeProc EXCEPT !.st = "zombie", !.parent = r.parent,
                   !.status = [how |-> "sig", code |-> 0, sig |-> sig]]

\* wait()/waitpid() collected the process: nothing of it is left.
Reaped == [FreeProc EXCEPT !.st = "reaped"]

\* A child branch that has no _Exit: the process leaves exec_dispatch and is
\* in the driver's loop.
ReturnToDriver(r, v) == [r EXCEPT !.pc = "driver"]

\* A handler returning v inside a forked process: the value travels up through
\* special_command (and pipe_handle, for a nested tail) unchanged to
\* exec_dispatch's child branch, which leaves through _Exit.
Return(r, v) == Exited(r, IF v # -1 THEN EXIT_SUCCESS ELSE EXIT_FAILURE)

Failed(h) == [h EXCEPT !.sysfail = TRUE]

\* Classify cmd and enter the matching handler, or go on to exec:
\* exec_dispatch's child branch, and pipe_handle's parent branch for a tail.
Enter(r, cmd) ==
  LET type == is_special_feature(cmd)
  IN  IF type > 0
        THEN [r EXCEPT !.cmd = cmd, !.type = type,
                       !.head = HeadOf(cmd), !.tail = TailOf(cmd),
                       !.pc = IF type = 3 THEN "ph_pipe" ELSE "rh_fork"]
        ELSE [r EXCEPT !.cmd = cmd, !.type = 0, !.argv = cmd, !.pc = "exec"]

\* ------------------------------------------------------------- inputs
\* The words of a line joined by single blanks and ended by a newline.
RECURSIVE Line(_)
Line(ws) ==
  IF ws = <<>> THEN <<"\n">>
  ELSE ws[1] \o (IF Len(ws) > 1 THEN <<" ">> ELSE <<>>) \o Line(Tail(ws))

\* The program of stage k of a generated chain: a, b, c, a, ... when it is to
\* launch, n (which no search path resolves) when it is not.
StageName(k, launch) ==
  IF ~launch THEN <<"n">>
  ELSE IF k % 3 = 1 THEN <<"a">> ELSE IF k % 3 = 2 THEN <<"b">> ELSE <<"c">>

\* s[1] | s[2] | ... | s[N]
ChainWords(s) ==
  [i \in 1..(2 * Len(s) - 1) |->
     IF i % 2 = 1 THEN StageName((i + 1) \div 2, s[(i + 1) \div 2]) ELSE PIPE]

Chains == {ChainWords(s) : s \in UNION {[1..n -> BOOLEAN] : n \in 1..MaxStages}}

Redirections ==
  { <<<<"a">>, OVERWRITE, <<"f">>>>, <<<<"n">>, OVERWRITE, <<"f">>>>,
    <<<<"a">>, APPEND, <<"f">>>>, <<<<"n">>, APPEND, <<"f">>>> }

\* A redirection as the tail of a pipe: a | b > f
Nested == { <<<<"a">>, PIPE, <<"b">>, OVERWRITE, <<"f">>>> }

\* A redirection whose tail goes on after the destination: a > f | b,
\* a > f > g, a >> f x
LongTails ==
  { <<<<"a">>, OVERWRITE, <<"f">>, PIPE, <<"b">>>>,
    <<<<"a">>, OVERWRITE, <<"f">>, OVERWRITE, <<"g">>>>,
    <<<<"a">>, APPEND, <<"f">>, <<"x">>>> }

\* a | b | ... with every program launchable
FullChains == {ChainWords([i \in 1..n |-> TRUE]) : n \in 2..MaxStages}

Simple == {c \in Chains : Len(c) = 1} \cup { <<<<"x">>>> }

\* Lines every session may hold: the built-in commands and blank lines.
Builtins ==
  {Line(ws) : ws \in { <<EXIT>>, <<VERBOSE>>, <<BRIEF>> }}
    \cup { <<"\n">>, <<" ", "\t", "\n">> }

\* Lines getline can hand to the driver: of a session of pipe chains, of a
\* session of redirections and pipes, of any session (with the lines that
\* begin or end with an operator).
PipeLines ==
  {Line(ws) : ws \in Chains}
    \cup { <<" ", "a", " ", " ", "|", "\t", "b", " ">> } \cup Builtins

TreeLines ==
  {Line(ws) : ws \in Redirections \cup Nested \cup LongTails \cup FullChains} \cup Builtins

Lines ==
  PipeLines \cup TreeLines \cup {Line(ws) : ws \in Simple}
    \cup {Line(ws) : ws \in { <<PIPE, <<"b">>>>, <<OVERWRITE, <<"f">>>>, <<<<"a">>, PIPE>> }}

\* What the buffer getline allocated at end-of-file can hold: it was never
\* written.
Uninit == { <<>>, <<"?">> }

\* The path configuration main and set_path leave behind.  Without -p, or when
\* the path file cannot be opened, path_flag is 0.  Otherwise path[i] is the
\* i-th line as getline stored it, its newline included, followed by the
\* buffer of the getline call that met end-of-file (left out below where a
\* line precedes it: exec never gets beyond path[0]); path[0] is NULL when
\* that first buffer could not be allocated.
PathConfigs ==
  { [path_flag |-> FALSE, path |-> <<>>],
    [path_flag |-> TRUE,  path |-> <<>>],
    [path_flag |-> TRUE,  path |-> <<Dir>>],
    [path_flag |-> TRUE,  path |-> << <<"e", "/", "\n">>, Dir >>] }
    \cup { [path_flag |-> TRUE, path |-> <<u>>] : u \in Uninit }

\* Observations of one prompt cycle: the dispatched tokens, the files as they
\* were at the dispatch, the processes and pipes created, whether a system call
\* failed, whether one failed in a redirection's child between its open and its
\* exec, the status waitpid stored in a redirection's parent, how the program
\* launched in exec_dispatch's own child ended, whether exec_dispatch returned,
\* the status its wait() stored and the value it returned.
FreshHist ==
  [cmds |-> <<>>, before |-> [n \in {} |-> <<>>], forks |-> 0, npipes |-> 0,
   sysfail |-> FALSE, fdfail |-> FALSE, head |-> NoStatus, last |-> NoStatus,
   returned |-> FALSE, status |-> NoStatus, rc |-> 0]

Init ==
  /\ \E v \in BOOLEAN :
       procs = [p \in 0..MaxProcs |->
                  IF p = 0
                    THEN [FreeProc EXCEPT !.st = "code", !.pc = "driver",
                                          !.fds = StdFds, !.verbose_flag = v]
                    ELSE FreeProc]
  /\ pipes = <<>>
  /\ files = [n \in {} |-> <<>>]
  /\ term = {}
  /\ \E c \in PathConfigs :
       driver = [pc |-> "prompt", cmds |-> <<>>, command_status |-> 1, why |-> "",
                 path_flag |-> c.path_flag, path |-> c.path, calls |-> <<>>]
  /\ hist = FreshHist

\* ------------------------------------------------------------- driver
\* The end of one loop iteration of driver after a command was handled: the
\* verbose summary, then back to the prompt.
After(d, rc) == [d EXCEPT !.pc = "prompt", !.command_status = rc, !.cmds = <<>>]

Summary(w, r, rc) ==
  IF r.verbose_flag THEN Say(w, r.fds[STDOUT_FILENO], IF rc = -1 THEN "failed" ELSE "ok") ELSE w

\* A new prompt cycle: the prompt is printed and getline is called.  The
\* records of ended processes and the observations of the last cycle go.
Swept(P) == [p \in 0..MaxProcs |-> IF p = 0 \/ Alive(P, p) THEN P[p] ELSE FreeProc]

\* What the files hold when a prompt cycle begins is old content from then on.
Aged(F) == [n \in DOMAIN F |-> [i \in 1..Len(F[n]) |-> Byte("old", i, 0)]]

FreshWorld == [term |-> {}, pipes |-> <<>>, files |-> Aged(files)]

\* getline reports end of input: the loop ends and driver returns 0.
DriverEOF ==
  /\ driver.pc = "prompt"
  /\ driver' = [driver EXCEPT !.pc = "done", !.why = "eof", !.command_status = 1]
  /\ procs' = Swept(procs)
  /\ hist' = FreshHist
  /\ SetWorld(Info(FreshWorld, procs[0], STDOUT_FILENO))

\* getline fails without end of input (a read error, or no memory for the
\* line): driver returns -1.
DriverReadError ==
  /\ driver.pc = "prompt"
  /\ driver' = [driver EXCEPT !.pc = "done", !.why = "read"]
  /\ procs' = Swept(procs)
  /\ hist' = FreshHist
  /\ SetWorld(Perror(FreshWorld, procs[0]))

\* An allocation inside tokenizer fails: exit(EXIT_FAILURE).
DriverAllocFail ==
  /\ driver.pc = "prompt"
  /\ driver' = [driver EXCEPT !.pc = "done", !.why = "alloc"]
  /\ procs' = Swept(procs)
  /\ hist' = FreshHist
  /\ SetWorld(Perror(FreshWorld, procs[0]))

\* A line was read and tokenized; no token: reprompt.
DriverBlank(line) ==
  /\ driver.pc = "prompt"
  /\ tokenizer(line) = <<>>
  /\ driver' = [driver EXCEPT !.command_status = 0, !.cmds = <<>>]
  /\ procs' = Swept(procs)
  /\ hist' = FreshHist
  /\ SetWorld(FreshWorld)

\* The built-in commands the driver handles itself.
DriverBuiltin(line) ==
  LET cmds == tokenizer(line) IN
  /\ driver.pc = "prompt"
  /\ cmds # <<>>
  /\ cmds[1] \in {EXIT, VERBOSE, BRIEF}
  /\ hist' = FreshHist
  /\ IF cmds[1] = EXIT
       THEN /\ driver' = [driver EXCEPT !.pc = "done", !.why = "exit", !.command_status = 0]
            /\ procs' = Swept(procs)
            /\ SetWorld(FreshWorld)
       ELSE LET sh == [procs[0] EXCEPT !.verbose_flag = (cmds[1] = VERBOSE)] IN
            /\ procs' = [Swept(procs) EXCEPT ![0] = sh]
            /\ driver' = After(driver, 0)
            /\ SetWorld(Summary(FreshWorld, sh, 0))

\* Any other first token: the driver calls exec_dispatch(cmds, num_cmds).
DriverDispatch(line) ==
  LET cmds == tokenizer(line) IN
  /\ driver.pc = "prompt"
  /\ cmds # <<>>
  /\ cmds[1] \notin {EXIT, VERBOSE, BRIEF, PWD, CD}
  /\ driver' = [driver EXCEPT !.pc = "dispatch", !.cmds = cmds]
  /\ procs' = Swept(procs)
  /\ hist' = [FreshHist EXCEPT !.cmds = cmds, !.before = Aged(files)]
  /\ SetWorld(FreshWorld)

\* ------------------------------------------------------------- exec_dispatch
\* No process is created: the caller itself goes on as the child.
SamePid(P) == 0

\* fork() takes the lowest free slot of the process table.
NewPid(P) == CHOOSE p \in Pids : P[p].st = "free" /\ \A q \in Pids : q < p => P[q].st # "free"

\* fork(): the child is a copy of the parent that continues at `pc`.
Child(r, parent, pc) ==
  [r EXCEPT !.st = "code", !.pc = pc, !.parent = parent, !.child = 0, !.status = NoStatus]

\* exec_dispatch after a failed fork, as the current source has it: return -1.
ForkFailed(d) == After(d, -1)

EDFork ==
  /\ driver.pc = "dispatch"
  /\ \/ /\ \E q \in Pids : procs[q].st = "free"
        /\ LET p  == NewPid(procs)
               sh == [procs[0] EXCEPT !.child = p]
           IN  /\ procs' = [procs EXCEPT ![0] = sh,
                                         ![p] = Child([sh EXCEPT !.cmd = driver.cmds], 0, "ed_child")]
               /\ SetWorld(Info(World, sh, STDOUT_FILENO))
        /\ driver' = [driver EXCEPT !.pc = "wait"]
        /\ hist' = [hist EXCEPT !.forks = @ + 1]
     \/ /\ driver' = ForkFailed(driver)
        /\ UNCHANGED procs
        /\ SetWorld(Summary(Perror(World, procs[0]), procs[0], -1))
        /\ hist' = [Failed(hist) EXCEPT !.returned = TRUE, !.rc = -1]

\* exec_dispatch's child branch up to the handler or exec.
EDChild(p) ==
  /\ procs[p].st = "code" /\ procs[p].pc = "ed_child"
  /\ procs' = [procs EXCEPT ![p] = Enter(@, @.cmd)]
  /\ SetWorld(Info(World, procs[p], STDOUT_FILENO))
  /\ UNCHANGED <<driver, hist>>

\* The same test without its SIGQUIT half.
KilledByInterrupt(status) == status.how = "sig" /\ status.sig = "SIGINT"

\* WIFSIGNALED(status) && (WTERMSIG(status) == SIGINT || WTERMSIG(status) == SIGQUIT)
KilledByUser(status) == status.how = "sig" /\ status.sig \in {"SIGINT", "SIGQUIT"}

\* A result that takes every exit for a success.
DispatchExited(status) == IF status.how = "exit" THEN EXIT_SUCCESS ELSE -1

\* The value exec_dispatch returns for the status wait() stored.
DispatchResult(status) ==
  IF KilledByUser(status) THEN -1
  ELSE IF status.how = "exit" /\ status.code = EXIT_SUCCESS THEN EXIT_SUCCESS ELSE -1

\* wait() returns once a child has terminated.
Terminated(P, c) == P[c].st = "zombie"

EDWait ==
  /\ driver.pc = "wait"
  /\ LET c == procs[0].child IN
     /\ Terminated(procs, c)
     /\ procs' = [procs EXCEPT ![c] = Reaped]
     /\ \/ LET rc == DispatchResult(procs[c].status)
               w1 == Info(World, procs[0], STDOUT_FILENO)
               w2 == IF KilledByUser(procs[c].status)
                       THEN Say(w1, procs[0].fds[STDOUT_FILENO], "killed") ELSE w1
           IN  /\ driver' = After(driver, rc)
               /\ SetWorld(Summary(w2, procs[0], rc))
               /\ hist' = [hist EXCEPT !.returned = TRUE, !.status = procs[c].status, !.rc = rc]
        \/ /\ driver' = After(driver, -1)
           /\ SetWorld(Summary(Perror(Info(World, procs[0], STDOUT_FILENO), procs[0]), procs[0], -1))
           /\ hist' = [Failed(hist) EXCEPT !.returned = TRUE, !.rc = -1]

\* ------------------------------------------------------------- pipe_handle
Code(p, pc) == procs[p].st = "code" /\ procs[p].pc = pc

\* The step of process p fails: perror, the cleanup closes, return -1.
Fail(p, r) ==
  /\ procs' = [procs EXCEPT ![p] = Return(r, -1)]
  /\ SetWorld(Perror(World, procs[p]))
  /\ hist' = [Failed(hist) EXCEPT
                !.fdfail = @ \/ procs[p].pc \in {"rhc_save", "rhc_dup2", "rhc_close"}]
  /\ UNCHANGED driver

\* pipe(pipefd)
PHPipe(p) ==
  /\ Code(p, "ph_pipe")
  /\ LET r  == procs[p]
         w0 == Info(World, r, STDOUT_FILENO)
         rd == LowFd(r.fds)
         wr == LowFd([r.fds EXCEPT ![rd] = Tty])
         i  == Len(pipes) + 1
     IN  \/ /\ rd <= MaxFd /\ wr <= MaxFd
            /\ procs' = [procs EXCEPT ![p].fds = [r.fds EXCEPT ![rd] = PipeR(i), ![wr] = PipeW(i)],
                                      ![p].pipefd = [r |-> rd, w |-> wr],
                                      ![p].pc = "ph_fork"]
            /\ LET w1 == Info(w0, r, STDOUT_FILENO)
               IN  term' = w1.term /\ files' = w1.files /\ pipes' = Append(w1.pipes, NewPipe)
            /\ hist' = [hist EXCEPT !.npipes = @ + 1]
            /\ UNCHANGED driver
         \/ Fail(p, r)

\* fork() in pipe_handle
PHFork(p) ==
  /\ Code(p, "ph_fork")
  /\ LET r == procs[p] IN
     \/ /\ \E q \in Pids : procs[q].st = "free"
        /\ LET c  == NewPid(procs)
               pr == [r EXCEPT !.child = c, !.pc = "php_wait"]
           IN  procs' = [procs EXCEPT ![p] = pr, ![c] = Child(pr, p, "phc_close_r")]
        /\ SetWorld(Info(World, r, STDOUT_FILENO))
        /\ hist' = [hist EXCEPT !.forks = @ + 1]
        /\ UNCHANGED driver
     \/ Fail(p, r)

\* child: close(pipefd[READ_END])
PHChildCloseRead(p) ==
  /\ Code(p, "phc_close_r")
  /\ LET r == procs[p] IN
     \/ /\ procs' = [procs EXCEPT ![p].fds = CloseFd(r.fds, r.pipefd.r),
                                  ![p].pc = IF r.verbose_flag /\ ~r.stdout_flag
                                              THEN "phc_save" ELSE "phc_dup2"]
        /\ SetWorld(Info(Info(World, r, STDOUT_FILENO), r, STDOUT_FILENO))
        /\ UNCHANGED <<driver, hist>>
     \/ Fail(p, r)

\* child, verbose only: saved_stdout = dup(STDOUT_FILENO)
PHChildSave(p) ==
  /\ Code(p, "phc_save")
  /\ LET r == procs[p]
         s == LowFd(r.fds)
     IN  \/ /\ s <= MaxFd
            /\ procs' = [procs EXCEPT ![p].fds = Dup2(r.fds, STDOUT_FILENO, s),
                                      ![p].saved_stdout = s, ![p].stdout_flag = TRUE,
                                      ![p].pc = "phc_dup2"]
            /\ Quiet
            /\ UNCHANGED <<driver, hist>>
         \/ Fail(p, r)

\* The child's table after dup2(pipefd[WRITE_END], STDOUT_FILENO).
ChildStdoutWrong(f, pipefd) == Dup2(f, pipefd.w, STDIN_FILENO)

ChildStdout(f, pipefd) == Dup2(f, pipefd.w, STDOUT_FILENO)

\* child: dup2(pipefd[WRITE_END], STDOUT_FILENO); verbose messages go to saved_stdout
PHChildDup2(p) ==
  /\ Code(p, "phc_dup2")
  /\ LET r == procs[p]
         f == ChildStdout(r.fds, r.pipefd)
     IN  \/ /\ procs' = [procs EXCEPT ![p].fds = f, ![p].pc = "phc_close_w"]
            /\ SetWorld(Info(World, [r EXCEPT !.fds = f], r.saved_stdout))
            /\ UNCHANGED <<driver, hist>>
         \/ Fail(p, r)

\* child: close(pipefd[WRITE_END]), then exec(head)
PHChildCloseWrite(p) ==
  /\ Code(p, "phc_close_w")
  /\ LET r == procs[p] IN
     \/ /\ procs' = [procs EXCEPT ![p].fds = CloseFd(r.fds, r.pipefd.w),
                                  ![p].argv = r.head, ![p].pc = "exec"]
        /\ Quiet
        /\ UNCHANGED <<driver, hist>>
     \/ Fail(p, r)

\* waitpid with WNOHANG: it returns at once, whatever the child does.
WaitedNoHang(P, c) == TRUE

\* waitpid(p_id, &status, 0) returns once that child has terminated; the status
\* it stores is never read.
Waited(P, c) == Terminated(P, c)

\* What is left of a child waitpid returned for.
Collected(P, c) == IF Terminated(P, c) THEN Reaped ELSE P[c]

\* parent: waitpid(p_id, &status, 0)
PHParentWait(p) ==
  /\ Code(p, "php_wait")
  /\ LET r == procs[p] IN
     /\ Waited(procs, r.child)
     /\ \/ /\ procs' = [procs EXCEPT ![r.child] = Collected(procs, r.child), ![p].pc = "php_dup2"]
           /\ SetWorld(Info(World, r, STDOUT_FILENO))
           /\ UNCHANGED <<driver, hist>>
        \/ /\ procs' = [procs EXCEPT ![r.child] = Collected(procs, r.child), ![p] = Return(r, -1)]
           /\ SetWorld(Perror(World, r))
           /\ hist' = Failed(hist)
           /\ UNCHANGED driver

\* parent: dup2(pipefd[READ_END], STDIN_FILENO)
PHParentDup2(p) ==
  /\ Code(p, "php_dup2")
  /\ LET r == procs[p] IN
     \/ /\ procs' = [procs EXCEPT ![p].fds = Dup2(r.fds, r.pipefd.r, STDIN_FILENO),
                                  ![p].pc = "php_close_r"]
        /\ SetWorld(Info(World, r, STDOUT_FILENO))
        /\ UNCHANGED <<driver, hist>>
     \/ Fail(p, r)

\* parent: close(pipefd[READ_END])
PHParentCloseRead(p) ==
  /\ Code(p, "php_close_r")
  /\ LET r == procs[p] IN
     \/ /\ procs' = [procs EXCEPT ![p].fds = CloseFd(r.fds, r.pipefd.r), ![p].pc = "php_close_w"]
        /\ Quiet
        /\ UNCHANGED <<driver, hist>>
     \/ Fail(p, r)

\* The parent's table after it forgets close(pipefd[WRITE_END]).
ParentKeepsWrite(f, pipefd) == f

ParentCloseWrite(f, pipefd) == CloseFd(f, pipefd.w)

\* parent: close(pipefd[WRITE_END]), then the tail: a nested handler through
\* special_command(tail, 0, tail_type), or exec(tail)
PHParentCloseWrite(p) ==
  /\ Code(p, "php_close_w")
  /\ LET r == procs[p] IN
     \/ /\ procs' = [procs EXCEPT ![p] = Enter([r EXCEPT !.fds = ParentCloseWrite(r.fds, r.pipefd)],
                                               r.tail)]
        /\ SetWorld(Info(Info(World, r, STDOUT_FILENO), r, STDOUT_FILENO))
        /\ UNCHANGED <<driver, hist>>
     \/ Fail(p, r)

\* ------------------------------------------- overwrite_handle, append_handle
\* fork() in overwrite_handle (type 2) and append_handle (type 1)
RHFork(p) ==
  /\ Code(p, "rh_fork")
  /\ LET r == procs[p] IN
     \/ /\ \E q \in Pids : procs[q].st = "free"
        /\ LET c  == NewPid(procs)
               pr == [r EXCEPT !.child = c, !.pc = "rhp_wait"]
           IN  procs' = [procs EXCEPT ![p] = pr, ![c] = Child(pr, p, "rhc_open")]
        /\ SetWorld(Info(Info(World, r, STDOUT_FILENO), r, STDOUT_FILENO))
        /\ hist' = [hist EXCEPT !.forks = @ + 1]
        /\ UNCHANGED driver
     \/ Fail(p, r)

\* An open that creates the file and never empties it.
OpenedNoTrunc(F, name, type) ==
  IF name \notin DOMAIN F
    THEN [n \in DOMAIN F \cup {name} |-> IF n = name THEN <<>> ELSE F[n]]
    ELSE F

\* The files after open(name, O_CREAT | O_WRONLY | O_TRUNC) or (... | O_APPEND).
Opened(F, name, type) ==
  IF type = 2 \/ name \notin DOMAIN F
    THEN [n \in DOMAIN F \cup {name} |-> IF n = name THEN <<>> ELSE F[n]]
    ELSE F

\* child: fd = open(tail[0], O_CREAT | O_WRONLY | O_TRUNC or O_APPEND, 0666)
RHChildOpen(p) ==
  /\ Code(p, "rhc_open")
  /\ LET r  == procs[p]
         fd == LowFd(r.fds)
         w0 == Info(World, r, STDOUT_FILENO)
     IN  \/ /\ r.tail # <<>> /\ fd <= MaxFd
            /\ procs' = [procs EXCEPT ![p].fds = [r.fds EXCEPT ![fd] = FileD(r.tail[1], r.type = 1)],
                                      ![p].fd = fd,
                                      ![p].pc = IF r.verbose_flag /\ ~r.stdout_flag
                                                  THEN "rhc_save" ELSE "rhc_dup2"]
            /\ SetWorld(Info([w0 EXCEPT !.files = Opened(@, r.tail[1], r.type)], r, STDOUT_FILENO))
            /\ UNCHANGED <<driver, hist>>
         \/ /\ procs' = [procs EXCEPT ![p] = Return(r, -1)]
            /\ SetWorld(Perror(w0, r))
            /\ hist' = [Failed(hist) EXCEPT !.fdfail = TRUE]
            /\ UNCHANGED driver

\* child, verbose only: saved_stdout = dup(STDOUT_FILENO)
RHChildSave(p) ==
  /\ Code(p, "rhc_save")
  /\ LET r == procs[p]
         s == LowFd(r.fds)
     IN  \/ /\ s <= MaxFd
            /\ procs' = [procs EXCEPT ![p].fds = Dup2(r.fds, STDOUT_FILENO, s),
                                      ![p].saved_stdout = s, ![p].stdout_flag = TRUE,
                                      ![p].pc = "rhc_dup2"]
            /\ Quiet
            /\ UNCHANGED <<driver, hist>>
         \/ Fail(p, r)

\* child: dup2(fd, STDOUT_FILENO)
RHChildDup2(p) ==
  /\ Code(p, "rhc_dup2")
  /\ LET r == procs[p]
         f == Dup2(r.fds, r.fd, STDOUT_FILENO)
     IN  \/ /\ procs' = [procs EXCEPT ![p].fds = f, ![p].pc = "rhc_close"]
            /\ SetWorld(Info(World, [r EXCEPT !.fds = f], r.saved_stdout))
            /\ UNCHANGED <<driver, hist>>
         \/ Fail(p, r)

\* child: close(fd), then exec(head)
RHChildClose(p) ==
  /\ Code(p, "rhc_close")
  /\ LET r == procs[p]
         f == CloseFd(r.fds, r.fd)
     IN  \/ /\ procs' = [procs EXCEPT ![p].fds = f, ![p].argv = r.head, ![p].pc = "exec"]
            /\ SetWorld(Info(World, [r EXCEPT !.fds = f], r.saved_stdout))
            /\ UNCHANGED <<driver, hist>>
         \/ Fail(p, r)

\* parent: waitpid(p_id, &status, 0), then return 0 whatever the status
RHParentWait(p) ==
  /\ Code(p, "rhp_wait")
  /\ LET r == procs[p] IN
     /\ Waited(procs, r.child)
     /\ \/ /\ procs' = [procs EXCEPT ![r.child] = Collected(procs, r.child), ![p] = Return(r, 0)]
           /\ SetWorld(Info(World, r, STDOUT_FILENO))
           /\ hist' = [hist EXCEPT !.head = procs[r.child].status]
           /\ UNCHANGED driver
        \/ /\ procs' = [procs EXCEPT ![r.child] = Collected(procs, r.child), ![p] = Return(r, -1)]
           /\ SetWorld(Perror(World, r))
           /\ hist' = Failed(hist)
           /\ UNCHANGED driver

\* ------------------------------------------------------------- exec
\* exec up to its execvp call: in verbose mode a saved stdout is closed first.
Exec(p) ==
  /\ Code(p, "exec")
  /\ LET r == procs[p] IN
     procs' = [procs EXCEPT ![p] =
                 IF r.verbose_flag /\ r.stdout_flag
                   THEN [r EXCEPT !.fds = CloseFd(r.fds, r.saved_stdout),
                                  !.stdout_flag = FALSE, !.pc = "execvp"]
                   ELSE [r EXCEPT !.pc = "execvp"]]
  /\ Quiet
  /\ UNCHANGED <<driver, hist>>

\* errno of an execvp through the inherited search path that failed.
Errno(name) == IF name \in NoPerm THEN "EACCES" ELSE "ENOENT"

\* What exec prints after execvp(cmd[0], cmd) failed in environment mode.
LaunchError(w, r) ==
  LET w1 == IF Errno(r.argv[1]) # "ENOENT" THEN Perror(w, r) ELSE w
  IN  IF r.verbose_flag THEN Say(w1, r.fds[STDOUT_FILENO], "notvalid") ELSE w1

\* The process once execvp has replaced its image: the descriptors, the
\* arguments and the parent stay, the memory of tinysh is gone.
Launched(r) == [FreeProc EXCEPT !.st = "image", !.fds = r.fds, !.argv = r.argv, !.parent = r.parent]

\* execvp(cmd[0], cmd) in environment mode; in configured-path mode
\* strcat(path[0], cmd[0]) and execvp of that, or "Invalid command" when the
\* list is empty.  The image is replaced, or exec reports and returns -1.
\* With an empty vector cmd[0] is the null pointer: execvp and strcat read
\* through it, which ends the process with SIGSEGV or, where the library
\* hands the pointer to the kernel, fails like any other execvp.
Execvp(p) ==
  /\ Code(p, "execvp")
  /\ LET r == procs[p] IN
     IF r.argv = <<>>
       THEN \/ /\ ~driver.path_flag \/ driver.path # <<>>
               /\ procs' = [procs EXCEPT ![p] = Killed(r, "SIGSEGV")]
               /\ Quiet
            \/ /\ ~driver.path_flag \/ driver.path # <<>>
               /\ procs' = [procs EXCEPT ![p] = Return(r, -1)]
               /\ SetWorld(Perror(World, r))
            \/ /\ driver.path_flag /\ driver.path = <<>>
               /\ procs' = [procs EXCEPT ![p] = Return(r, -1)]
               /\ SetWorld(Say(World, r.fds[STDERR_FILENO], "invalid"))
     ELSE IF ~driver.path_flag
       THEN IF Resolves(r.argv[1])
              THEN /\ procs' = [procs EXCEPT ![p] = Launched(r)]
                   /\ UNCHANGED <<pipes, files, term>>
              ELSE /\ procs' = [procs EXCEPT ![p] = Return(r, -1)]
                   /\ SetWorld(LaunchError(World, r))
     ELSE IF driver.path = <<>>
       THEN /\ procs' = [procs EXCEPT ![p] = Return(r, -1)]
            /\ SetWorld(Say(World, r.fds[STDERR_FILENO], "invalid"))
     ELSE IF Resolves(driver.path[1] \o r.argv[1])
       THEN /\ procs' = [procs EXCEPT ![p] = Launched(r)]
            /\ UNCHANGED <<pipes, files, term>>
       ELSE /\ procs' = [procs EXCEPT ![p] = Return(r, -1)]
            /\ SetWorld(Perror(World, r))
  /\ UNCHANGED <<driver, hist>>

\* ------------------------------------------------------ launched programs
Signals == {"SIGINT", "SIGQUIT", "SIGKILL"}

Image(p) == procs[p].st = "image"

\* A launched program writes its next byte to its standard output.
ImageWrite(p) ==
  /\ Image(p)
  /\ procs[p].nw < MaxWrite
  /\ LET r == procs[p]
         d == r.fds[STDOUT_FILENO]
         b == Byte("data", r.nw + 1, p)
     IN  \/ /\ d.k = "tty"
            /\ procs' = [procs EXCEPT ![p].nw = @ + 1]
            /\ UNCHANGED <<pipes, files>>
         \/ /\ d.k = "w" /\ Readers(procs, d.pi) # {} /\ Len(pipes[d.pi].buf) < PipeCap
            /\ pipes' = [pipes EXCEPT ![d.pi].buf = Append(@, b)]
            /\ procs' = [procs EXCEPT ![p].nw = @ + 1]
            /\ UNCHANGED files
         \/ /\ d.k = "w" /\ Readers(procs, d.pi) = {}
            /\ procs' = [procs EXCEPT ![p] = Killed(r, "SIGPIPE")]
            /\ pipes' = Settle(procs', pipes)
            /\ UNCHANGED files
         \/ /\ d.k = "file"
            /\ (IF d.app THEN Len(files[d.fn]) ELSE d.off) < MaxFile
            /\ files' = [files EXCEPT ![d.fn] = WriteAt(@, d, b)]
            /\ procs' = [procs EXCEPT ![p].fds[STDOUT_FILENO].off = @ + 1, ![p].nw = @ + 1]
            /\ UNCHANGED pipes
  /\ hist' = IF procs[p].parent = 0 /\ procs'[p].st = "zombie"
               THEN [hist EXCEPT !.last = procs'[p].status] ELSE hist
  /\ UNCHANGED <<term, driver>>

\* A launched program reads one byte, or end-of-file, from its standard input.
ImageRead(p) ==
  /\ Image(p)
  /\ LET d == procs[p].fds[STDIN_FILENO] IN
     /\ d.k = "r"
     /\ \/ /\ pipes[d.pi].buf # <<>>
           /\ pipes' = [pipes EXCEPT ![d.pi].buf = Tail(@), ![d.pi].nread = @ + 1]
           /\ UNCHANGED procs
        \/ /\ pipes[d.pi].buf = <<>> /\ Writers(procs, d.pi) = {} /\ ~procs[p].eof
           /\ procs' = [procs EXCEPT ![p].eof = TRUE]
           /\ UNCHANGED pipes
  /\ UNCHANGED <<files, term, driver, hist>>

\* A launched program ends with an exit code.
ImageExit(p, code) ==
  /\ Image(p)
  /\ procs' = [procs EXCEPT ![p] = Exited(@, code)]
  /\ Quiet
  /\ hist' = IF procs[p].parent = 0 THEN [hist EXCEPT !.last = procs'[p].status] ELSE hist
  /\ UNCHANGED driver

\* A signal ends a launched program.
Kill(p, sig) ==
  /\ Image(p)
  /\ procs' = [procs EXCEPT ![p] = Killed(@, sig)]
  /\ Quiet
  /\ hist' = IF procs[p].parent = 0 THEN [hist EXCEPT !.last = procs'[p].status] ELSE hist
  /\ UNCHANGED driver

\* The terminal sends an interrupt or quit signal to the foreground process
\* group.  The shell never changes a signal disposition or a process group, so
\* the signal reaches the shell and every process it created, and ends each of
\* them (the launched programs taken to keep the default disposition too).
Interrupt(sig) ==
  /\ driver.pc # "done"
  /\ driver' = [driver EXCEPT !.pc = "done", !.why = "signal", !.cmds = <<>>]
  /\ procs' = [p \in 0..MaxProcs |-> IF p = 0 THEN Killed(procs[0], sig) ELSE FreeProc]
  /\ hist' = [FreshHist EXCEPT !.cmds = hist.cmds, !.forks = hist.forks]
  /\ SetWorld([World EXCEPT !.term = {}, !.pipes = <<>>])

\* ------------------------------------------------------ tokenizer, by steps
\* The terminating byte strtok_r writes over the delimiter that ends a token,
\* and the null pointer.
NUL_BYTE == "\\0"
NULL     == <<>>

DEFAULT_TOKENS_CAPACITY == 3
TOKEN_FACTOR_HEURISTIC  == 4

\* strspn(s, delim) and strcspn(s, delim) from position k of str, as positions.
RECURSIVE Spn(_, _)
Spn(str, k) ==
  IF k <= Len(str) /\ str[k] \in Delim THEN Spn(str, k + 1) ELSE k

\* A token that stops at a blank only.
RECURSIVE CspnBlank(_, _)
CspnBlank(str, k) ==
  IF k <= Len(str) /\ str[k] # " " /\ str[k] # NUL_BYTE THEN CspnBlank(str, k + 1) ELSE k

RECURSIVE Cspn(_, _)
Cspn(str, k) ==
  IF k <= Len(str) /\ str[k] \notin Delim /\ str[k] # NUL_BYTE THEN Cspn(str, k + 1) ELSE k

\* strtok_r(context, delim, &context) on the buffer str with context at
\* position c: the token found (NULL when none is left), the buffer with the
\* token's terminator written, and the new context.
strtok_r(str, c) ==
  LET s == Spn(str, c) IN
  IF s > Len(str) \/ str[s] = NUL_BYTE
    THEN [tok |-> NULL, str |-> str, context |-> s]
    ELSE LET e == Cspn(str, s) IN
         IF e > Len(str) \/ str[e] = NUL_BYTE
           THEN [tok |-> SubSeq(str, s, e - 1), str |-> str, context |-> e]
           ELSE [tok |-> SubSeq(str, s, e - 1),
                 str |-> [str EXCEPT ![e] = NUL_BYTE], context |-> e + 1]

\* The count the driver passes in *tok_num: what getline returned, which is
\* never 0 (an input that is empty as a string began with a NUL byte).
CharsRead(input) == IF input = <<>> THEN 1 ELSE Len(input)

\* The frame of a tokenizer call on `input` at its first statement.
Call(input) ==
  [pc |-> "strdup", input |-> input, given |-> input, str |-> <<>>, context |-> 1,
   tokens |-> <<>>, capacity |-> (CharsRead(input) \div TOKEN_FACTOR_HEURISTIC) + 1,
   tok_used |-> 0, tok_num |-> CharsRead(input), ret |-> NULL, failed |-> {}]

\* The call whose context variable strtok would use if it kept one static
\* cursor for every caller.
StaticSavePtr(i) == 1

\* The call whose local `context` call i hands to strtok_r as save pointer.
SavePtr(i) == i

InCall(i, pc) == i \in DOMAIN driver.calls /\ driver.calls[i].pc = pc

\* The calls once the process has ended during call i, where the allocation
\* at `site` failed.
Ended(calls, i, site, pc) ==
  [j \in DOMAIN calls |->
     IF j = i THEN [calls[j] EXCEPT !.pc = pc, !.failed = @ \cup {site}]
     ELSE [calls[j] EXCEPT !.pc = pc]]

\* perror, then exit(EXIT_FAILURE): the process ends, and every call with it.
ExitNoMemory(i, site) ==
  /\ driver' = [driver EXCEPT !.pc = "done", !.why = "alloc",
                              !.calls = Ended(@, i, site, "exit")]
  /\ UNCHANGED procs
  /\ SetWorld(Perror(World, procs[0]))

\* A failed realloc left NULL in `tokens`, and the cleanup loop reads
\* tokens[i] before exit is reached: a read through a null pointer, which
\* ends the process with SIGSEGV or goes unnoticed.
CleanupNoMemory(i, site) ==
  \/ ExitNoMemory(i, site)
  \/ /\ driver' = [driver EXCEPT !.pc = "done", !.why = "signal",
                                 !.calls = Ended(@, i, site, "crash")]
     /\ procs' = [procs EXCEPT ![0] = Killed(@, "SIGSEGV")]
     /\ SetWorld(Perror(World, procs[0]))

\* str = strdup(input); context = str
TokStrdup(i) ==
  /\ InCall(i, "strdup")
  /\ \/ /\ driver' = [driver EXCEPT !.calls[i].str = driver.calls[i].input,
                                    !.calls[i].context = 1,
                                    !.calls[i].pc = "malloc"]
        /\ UNCHANGED procs
        /\ Quiet
     \/ ExitNoMemory(i, "str")
  /\ UNCHANGED hist

\* tokens = malloc(capacity * sizeof(*tokens))
TokMalloc(i) ==
  /\ InCall(i, "malloc")
  /\ \/ /\ driver' = [driver EXCEPT !.calls[i].pc = "strtok"]
        /\ UNCHANGED procs
        /\ Quiet
     \/ ExitNoMemory(i, "tokens")
  /\ UNCHANGED hist

\* One pass of the while loop: strtok_r, the array doubled when it is full,
\* tokens[tok_used++] = strdup(tok) with the result of strdup stored as it is.
TokStrtok(i) ==
  /\ InCall(i, "strtok")
  /\ LET f  == driver.calls[i]
         sp == SavePtr(i)
         t  == strtok_r(f.str, driver.calls[sp].context)
         g  == [f EXCEPT !.str = t.str]
         saved(d) == [d EXCEPT !.calls[sp].context = t.context]
     IN  IF t.tok = NULL
           THEN /\ driver' = saved([driver EXCEPT !.calls[i] = [g EXCEPT !.pc = "finish"]])
                /\ UNCHANGED procs
                /\ Quiet
           ELSE LET cap == IF f.tok_used = f.capacity THEN 2 * f.capacity ELSE f.capacity
                    h(entry) == [g EXCEPT !.capacity = cap, !.tok_used = @ + 1,
                                          !.tokens = Append(@, entry)]
                IN  \/ /\ driver' = saved([driver EXCEPT !.calls[i] = h(t.tok)])
                       /\ UNCHANGED procs
                       /\ Quiet
                    \/ /\ driver' = saved([driver EXCEPT
                                             !.calls[i] = [h(NULL) EXCEPT !.failed = @ \cup {"token"}]])
                       /\ UNCHANGED procs
                       /\ Quiet
                    \/ /\ f.tok_used = f.capacity
                       /\ CleanupNoMemory(i, "grow")
  /\ UNCHANGED hist

\* After the loop: no token, free(tokens) and NULL; else the array is cut to
\* tok_used + 1 entries and ended with NULL.  *tok_num = tok_used.
TokFinish(i) ==
  /\ InCall(i, "finish")
  /\ LET f == driver.calls[i] IN
     \/ /\ driver' = [driver EXCEPT
                        !.calls[i].ret = IF f.tok_used = 0 THEN NULL ELSE Append(f.tokens, NULL),
                        !.calls[i].tok_num = f.tok_used,
                        !.calls[i].pc = "returned"]
        /\ UNCHANGED procs
        /\ Quiet
     \/ /\ f.tok_used > 0
        /\ CleanupNoMemory(i, "trim")
  /\ UNCHANGED hist

\* The entries of a NULL-terminated vector before its first NULL.
RECURSIVE Argv(_)
Argv(v) == IF v = <<>> \/ v[1] = NULL THEN <<>> ELSE <<v[1]>> \o Argv(Tail(v))

\* The driver after its tokenizer call returned: no command, reprompt with
\* command_status 0; else the first token routes the vector.
DriverAfterTokenizer ==
  /\ driver.pc = "tokenizer"
  /\ InCall(1, "returned")
  /\ LET cmds == driver.calls[1].ret IN
     driver' = IF cmds = NULL \/ cmds[1] = NULL
                 THEN [driver EXCEPT !.pc = "prompt", !.command_status = 0, !.calls[1].pc = "freed"]
               ELSE IF cmds[1] \in {EXIT, VERBOSE, BRIEF, PWD, CD}
                 THEN [driver EXCEPT !.pc = "builtin", !.cmds = Argv(cmds), !.calls[1].pc = "used"]
                 ELSE [driver EXCEPT !.pc = "dispatch", !.cmds = Argv(cmds), !.calls[1].pc = "used"]
  /\ Quiet
  /\ UNCHANGED <<procs, hist>>

\* Every line of at most n characters over the given characters.
RECURSIVE Strings(_, _)
Strings(chars, n) ==
  IF n = 0 THEN { <<>> }
  ELSE LET shorter == Strings(chars, n - 1)
       IN  shorter \cup {Append(x, ch) : x \in {y \in shorter : Len(y) = n - 1}, ch \in chars}

Chars == {" ", "\t", "\n", "a", "|", ">"}

\* "  ls  -la "
Example == <<" ", " ", "l", "s", " ", " ", "-", "l", "a", " ">>

\* The lines a tokenizer call is examined on.
Inputs == Strings(Chars, MaxLine) \cup Lines \cup {Example}

\* The lines of two calls in progress at the same time.
PairInputs ==
  { <<"a", " ", "b">>, <<" ", "a", "\t", "|", "\n">>, <<"\n">>, <<"a", "|", "b", " ", ">", " ">> }

\* The driver inside its tokenizer call on a line getline returned.
InitText ==
  /\ procs = [p \in 0..MaxProcs |->
                IF p = 0 THEN [FreeProc EXCEPT !.st = "code", !.pc = "driver", !.fds = StdFds]
                ELSE FreeProc]
  /\ pipes = <<>>
  /\ files = [n \in {} |-> <<>>]
  /\ term = {}
  /\ hist = FreshHist
  /\ \E input \in Inputs :
       driver = [pc |-> "tokenizer", cmds |-> <<>>, command_status |-> 1, why |-> "",
                 path_flag |-> FALSE, path |-> <<>>, calls |-> <<Call(input)>>]

\* Two tokenizer calls in progress, each on a line of its own.
InitCalls ==
  /\ procs = [p \in 0..MaxProcs |->
                IF p = 0 THEN [FreeProc EXCEPT !.st = "code", !.pc = "driver", !.fds = StdFds]
                ELSE FreeProc]
  /\ pipes = <<>>
  /\ files = [n \in {} |-> <<>>]
  /\ term = {}
  /\ hist = FreshHist
  /\ \E in1 \in PairInputs, in2 \in PairInputs :
       driver = [pc |-> "tokenizer", cmds |-> <<>>, command_status |-> 1, why |-> "",
                 path_flag |-> FALSE, path |-> <<>>, calls |-> <<Call(in1), Call(in2)>>]

Tokenize(i) == TokStrdup(i) \/ TokMalloc(i) \/ TokStrtok(i) \/ TokFinish(i)

\* ------------------------------------------- special_command, by steps
\* type = is_special_feature(cmd) where a process classifies its vector: in
\* exec_dispatch's child branch and in pipe_handle's parent branch.
Classify(p) ==
  /\ Code(p, "classify")
  /\ LET r    == procs[p]
         type == is_special_feature(r.cmd)
     IN  procs' = [procs EXCEPT ![p] =
                     IF type > 0 THEN [r EXCEPT !.type = type, !.pc = "sc_malloc"]
                     ELSE [r EXCEPT !.type = 0, !.argv = r.cmd, !.pc = "exec"]]
  /\ Quiet
  /\ UNCHANGED <<driver, hist>>

\* An allocation of special_command failed: perror, return -1.
SCNoMemory(p) ==
  /\ procs' = [procs EXCEPT ![p] = Return(procs[p], -1)]
  /\ SetWorld(Perror(World, procs[p]))
  /\ hist' = Failed(hist)
  /\ UNCHANGED driver

\* capacity = num_cmd > 0 ? (num_cmd / 2) + 1 : DEFAULT_TOKENS_CAPACITY, and
\* the two malloc calls.
SCMalloc(p) ==
  /\ Code(p, "sc_malloc")
  /\ LET r   == procs[p]
         cap == IF r.sc.num_cmd > 0 THEN (r.sc.num_cmd \div 2) + 1 ELSE DEFAULT_TOKENS_CAPACITY
     IN  \/ /\ procs' = [procs EXCEPT ![p].sc.capacity = cap,
                                      ![p].sc.size = [head |-> cap, tail |-> cap],
                                      ![p].sc.i = 0, ![p].sc.j = 0, ![p].sc.k = 0,
                                      ![p].pc = "sc_head"]
            /\ Quiet
            /\ UNCHANGED <<driver, hist>>
         \/ SCNoMemory(p)

\* What can become of process r when it executes arr[idx] = v.  Inside the
\* allocated elements the value is stored.  Outside them the store is a heap
\* overflow: it goes unnoticed, or it lands in an element of the other array,
\* or the process is aborted.
Stored(r, arr, idx, v) ==
  LET other == IF arr = "head" THEN "tail" ELSE "head"
      put   == [r EXCEPT !.sc[arr] = Append(@, v)]
  IN  IF idx < r.sc.size[arr] THEN {put}
      ELSE {[put EXCEPT !.sc.ub = TRUE]}
             \cup {[put EXCEPT !.sc.ub = TRUE, !.sc[other][x] = v] : x \in 1..Len(r.sc[other])}
             \cup {Killed(r, "SIGABRT")}

\* One pass of the first loop, or its end: head[j] = NULL; i++
SCHead(p) ==
  /\ Code(p, "sc_head")
  /\ LET r == procs[p]
         c == r.sc
     IN  IF IsOp(r.cmd[c.i + 1])
           THEN /\ \E r2 \in Stored([r EXCEPT !.sc.i = c.i + 1, !.pc = "sc_tail"], "head", c.j, NULL) :
                     procs' = [procs EXCEPT ![p] = r2]
                /\ Quiet
                /\ UNCHANGED <<driver, hist>>
           ELSE LET grow == c.j >= c.capacity - 1
                    cap  == IF grow THEN 2 * c.capacity ELSE c.capacity
                    r1   == [r EXCEPT !.sc.capacity = cap,
                                      !.sc.size.head = IF grow THEN cap ELSE @,
                                      !.sc.i = c.i + 1, !.sc.j = c.j + 1]
                IN  \/ /\ \E r2 \in Stored(r1, "head", c.j, r.cmd[c.i + 1]) :
                            procs' = [procs EXCEPT ![p] = r2]
                       /\ Quiet
                       /\ UNCHANGED <<driver, hist>>
                    \/ /\ grow
                       /\ SCNoMemory(p)

\* The handler special_command's switch calls with the two vectors.
Handler(r) ==
  [r EXCEPT !.head = Argv(r.sc.head), !.tail = Argv(r.sc.tail),
            !.pc = IF r.type = 3 THEN "ph_pipe" ELSE "rh_fork"]

\* One pass of the second loop, or its end: tail[k] = NULL, then the switch.
SCTail(p) ==
  /\ Code(p, "sc_tail")
  /\ LET r == procs[p]
         c == r.sc
     IN  IF c.i + 1 > Len(r.cmd)
           THEN /\ \E r2 \in Stored(r, "tail", c.k, NULL) :
                     procs' = [procs EXCEPT ![p] = IF r2.st = "code" THEN Handler(r2) ELSE r2]
                /\ Quiet
                /\ UNCHANGED <<driver, hist>>
           ELSE LET grow == c.k >= c.capacity - 1
                    cap  == IF grow THEN 2 * c.capacity ELSE c.capacity
                    r1   == [r EXCEPT !.sc.capacity = cap,
                                      !.sc.size.tail = IF grow THEN cap ELSE @,
                                      !.sc.i = c.i + 1, !.sc.k = c.k + 1]
                IN  \/ /\ \E r2 \in Stored(r1, "tail", c.k, r.cmd[c.i + 1]) :
                            procs' = [procs EXCEPT ![p] = r2]
                       /\ Quiet
                       /\ UNCHANGED <<driver, hist>>
                    \/ /\ grow
                       /\ SCNoMemory(p)

\* Every sequence of at most n of the given tokens.
Vectors(toks, n) == Strings(toks, n)

\* The vectors a process classifies and splits: up to MaxSide words, or
\* that much, an operator and up to MaxSide further tokens.  a|b is a word.
Words == { <<"a">>, <<"a", "|", "b">> }

Argvs ==
  (Vectors(Words, MaxSide) \ { <<>> })
    \cup {h \o <<op>> \o t : h \in Vectors(Words, MaxSide), op \in {PIPE, OVERWRITE, APPEND},
                            t \in Vectors({ <<"a">>, PIPE, APPEND }, MaxSide)}

\* A forked process about to classify its vector: the child of exec_dispatch,
\* which passes on the number of tokens, or the parent branch of pipe_handle
\* with a tail, which passes 0.
InitSplit ==
  /\ \E cmd \in Argvs, counted \in BOOLEAN :
       /\ procs = [p \in 0..MaxProcs |->
                     IF p = 0 THEN [FreeProc EXCEPT !.st = "code", !.pc = "driver",
                                                    !.fds = StdFds, !.child = 1]
                     ELSE IF p = 1
                       THEN [FreeProc EXCEPT !.st = "code", !.pc = "classify", !.fds = StdFds,
                                             !.cmd = cmd,
                                             !.sc.num_cmd = IF counted THEN Len(cmd) ELSE 0]
                     ELSE FreeProc]
       /\ hist = [FreshHist EXCEPT !.cmds = cmd, !.forks = 1]
  /\ pipes = <<>>
  /\ files = [n \in {} |-> <<>>]
  /\ term = {}
  /\ driver = [pc |-> "wait", cmds |-> <<>>, command_status |-> 1, why |-> "",
               path_flag |-> FALSE, path |-> <<>>, calls |-> <<>>]

Split(p) == Classify(p) \/ SCMalloc(p) \/ SCHead(p) \/ SCTail(p)

\* ------------------------------------------------------------- specification
\* The steps of a process outside the handlers: the child of exec_dispatch,
\* exec, and the launched program.
Run(p) ==
  \/ EDChild(p)
  \/ Exec(p) \/ Execvp(p)
  \/ ImageWrite(p)
  \/ \E code \in {EXIT_SUCCESS, EXIT_FAILURE} : ImageExit(p, code)
  \/ \E sig \in Signals : Kill(p, sig)

Pipe(p) ==
  \/ PHPipe(p) \/ PHFork(p)
  \/ PHChildCloseRead(p) \/ PHChildSave(p) \/ PHChildDup2(p) \/ PHChildCloseWrite(p)
  \/ PHParentWait(p) \/ PHParentDup2(p) \/ PHParentCloseRead(p) \/ PHParentCloseWrite(p)
  \/ ImageRead(p)

Redirect(p) ==
  \/ RHFork(p) \/ RHChildOpen(p) \/ RHChildSave(p) \/ RHChildDup2(p) \/ RHChildClose(p)
  \/ RHParentWait(p)

\* One pass of the driver's loop over a line of L, up to the dispatch.
Read(L) ==
  \/ DriverEOF \/ DriverReadError \/ DriverAllocFail
  \/ \E line \in L : DriverBlank(line) \/ DriverBuiltin(line) \/ DriverDispatch(line)

Next ==
  \/ Read(Lines)
  \/ EDFork \/ EDWait
  \/ \E sig \in {"SIGINT", "SIGQUIT"} : Interrupt(sig)
  \/ \E p \in Pids : Run(p) \/ Pipe(p) \/ Redirect(p)

Spec == Init /\ [][Next]_vars

\* A session whose command lines are pipe chains.
NextPipes ==
  \/ Read(PipeLines)
  \/ EDFork \/ EDWait
  \/ \E sig \in {"SIGINT", "SIGQUIT"} : Interrupt(sig)
  \/ \E p \in Pids : Run(p) \/ Pipe(p)

SpecPipes == Init /\ [][NextPipes]_vars

\* A session of redirections, pipes of launchable programs and both nested.
NextTree ==
  \/ Read(TreeLines)
  \/ EDFork \/ EDWait
  \/ \E sig \in {"SIGINT", "SIGQUIT"} : Interrupt(sig)
  \/ \E p \in Pids : Run(p) \/ Pipe(p) \/ Redirect(p)

SpecTree == Init /\ [][NextTree]_vars

\* One tokenizer call of the driver and what the driver does with the result.
NextText == Tokenize(1) \/ DriverAfterTokenizer

SpecText == InitText /\ [][NextText]_vars

\* Two tokenizer calls whose steps interleave.
NextCalls == (\E i \in 1..2 : Tokenize(i)) \/ DriverAfterTokenizer

SpecCalls == InitCalls /\ [][NextCalls]_vars

\* A forked process from the classification of its vector to the handler.
NextSplit == \E p \in Pids : Split(p)

SpecSplit == InitSplit /\ [][NextSplit]_vars

\* ------------------------------------------ the variant src/src/tinysh.c
\* The variant has the same tokenizer, classification and split, the same
\* pipe(), fork(), close(pipefd[0]), dup2 and waitpid steps in pipe_handle and
\* the same open and dup2 in its redirection handlers; every failure in a
\* forked process is perror and exit(EXIT_FAILURE), which is what Fail leaves.
\* Below are the steps that differ.  The session is one started without -v and
\* without -p, and pwd and cd are not typed.

\* What the array `input` of driver can hold before the first fgets: it is
\* not initialised.
OldGarbage == { <<>>, <<"\n">>, Line(<< <<"a">> >>) }

\* The lines fgets can store.
OldLines ==
  {Line(ws) : ws \in { <<>>, <<EXIT>>, << <<"a">> >>, << <<"n">> >>,
                       << <<"a">>, PIPE, <<"b">> >>,
                       << <<"a">>, OVERWRITE, <<"f">> >>,
                       << <<"a">>, APPEND, <<"f">> >>,
                       << <<"a">>, OVERWRITE, <<"f">>, OVERWRITE, <<"g">> >> }}

InitOld ==
  /\ procs = [p \in 0..MaxProcs |->
                IF p = 0
                  THEN [FreeProc EXCEPT !.st = "code", !.pc = "driver", !.fds = StdFds]
                  ELSE FreeProc]
  /\ pipes = <<>>
  /\ files = [n \in {} |-> <<>>]
  /\ term = {}
  /\ \E g \in OldGarbage :
       driver = [pc |-> "prompt", cmds |-> <<>>, command_status |-> 1, why |-> "",
                 path_flag |-> FALSE, path |-> <<>>, calls |-> <<>>,
                 input |-> g, eof |-> FALSE, read |-> FALSE]
  /\ hist = FreshHist

\* One pass of the loop of driver up to the dispatch: the prompt, fgets (whose
\* result is not looked at: at end of input it returns NULL and leaves `input`
\* as it was), tokenizer(input, ...), and the test of the first token.  `read`
\* tells whether this fgets stored a line, `eof` whether one has returned NULL.
OldDriverRead ==
  /\ driver.pc = "prompt"
  /\ \E line \in OldLines \cup {NULL} :
       LET hit   == line = NULL
           input == IF hit THEN driver.input ELSE line
           cmds  == tokenizer(input)
           d     == [driver EXCEPT !.input = input, !.eof = @ \/ hit, !.read = ~hit]
       IN  /\ ~hit => ~driver.eof
           /\ cmds # <<>> => cmds[1] \notin {PWD, CD}
           /\ procs' = Swept(procs)
           /\ SetWorld(FreshWorld)
           /\ IF cmds = <<>>
                THEN /\ driver' = [d EXCEPT !.cmds = <<>>]
                     /\ hist' = FreshHist
                ELSE IF cmds[1] = EXIT
                  THEN /\ driver' = [d EXCEPT !.pc = "done", !.why = "exit"]
                       /\ hist' = FreshHist
                  ELSE /\ driver' = [d EXCEPT !.pc = "dispatch", !.cmds = cmds]
                       /\ hist' = [FreshHist EXCEPT !.cmds = cmds, !.before = Aged(files)]

\* fork() in exec_dispatch: a failed fork is perror and exit(EXIT_FAILURE) in
\* the shell itself.
OldEDFork ==
  /\ driver.pc = "dispatch"
  /\ \/ /\ \E q \in Pids : procs[q].st = "free"
        /\ LET p  == NewPid(procs)
               sh == [procs[0] EXCEPT !.child = p]
           IN  /\ procs' = [procs EXCEPT ![0] = sh,
                                         ![p] = Child([sh EXCEPT !.cmd = driver.cmds], 0, "ed_child")]
               /\ SetWorld(Info(World, sh, STDOUT_FILENO))
        /\ driver' = [driver EXCEPT !.pc = "wait"]
        /\ hist' = [hist EXCEPT !.forks = @ + 1]
     \/ /\ procs' = [procs EXCEPT ![0] = Exited(@, EXIT_FAILURE)]
        /\ SetWorld(Perror(World, procs[0]))
        /\ driver' = [driver EXCEPT !.pc = "done", !.why = "fork", !.cmds = <<>>]
        /\ hist' = Failed(hist)

\* wait(&status) in exec_dispatch: the function returns nothing; a failed wait
\* is perror and exit(EXIT_FAILURE) in the shell itself.
OldEDWait ==
  /\ driver.pc = "wait"
  /\ LET c == procs[0].child IN
     \/ /\ Terminated(procs, c)
        /\ procs' = [procs EXCEPT ![c] = Reaped]
        /\ SetWorld(Info(World, procs[0], STDOUT_FILENO))
        /\ driver' = [driver EXCEPT !.pc = "prompt", !.cmds = <<>>]
        /\ hist' = [hist EXCEPT !.returned = TRUE, !.status = procs[c].status]
     \/ /\ procs' = [procs EXCEPT ![0] = Exited(@, EXIT_FAILURE)]
        /\ SetWorld(Perror(Info(World, procs[0], STDOUT_FILENO), procs[0]))
        /\ driver' = [driver EXCEPT !.pc = "done", !.why = "wait", !.cmds = <<>>]
        /\ hist' = Failed(hist)

\* pipe_handle's child after dup2(pipefd[1], STDOUT_FILENO): exec(head) at
\* once, pipefd[1] is not closed.
OldPHChildExec(p) ==
  /\ Code(p, "phc_close_w")
  /\ procs' = [procs EXCEPT ![p].argv = procs[p].head, ![p].pc = "exec"]
  /\ Quiet
  /\ UNCHANGED <<driver, hist>>

\* overwrite_handle and append_handle begin with pipe(pipefd).
OldRHPipe(p) ==
  /\ Code(p, "rh_fork")
  /\ LET r  == procs[p]
         w0 == Info(World, r, STDOUT_FILENO)
         rd == LowFd(r.fds)
         wr == LowFd([r.fds EXCEPT ![rd] = Tty])
         i  == Len(pipes) + 1
     IN  \/ /\ rd <= MaxFd /\ wr <= MaxFd
            /\ procs' = [procs EXCEPT ![p].fds = [r.fds EXCEPT ![rd] = PipeR(i), ![wr] = PipeW(i)],
                                      ![p].pipefd = [r |-> rd, w |-> wr],
                                      ![p].pc = "orh_fork"]
            /\ LET w1 == Info(w0, r, STDOUT_FILENO)
               IN  term' = w1.term /\ files' = w1.files /\ pipes' = Append(w1.pipes, NewPipe)
            /\ hist' = [hist EXCEPT !.npipes = @ + 1]
            /\ UNCHANGED driver
         \/ Fail(p, r)

\* fork() in overwrite_handle and append_handle: the child goes on to the open
\* of tail[0].
OldRHFork(p) ==
  /\ Code(p, "orh_fork")
  /\ LET r == procs[p] IN
     \/ /\ \E q \in Pids : procs[q].st = "free"
        /\ LET c  == NewPid(procs)
               pr == [r EXCEPT !.child = c, !.pc = "rhp_wait"]
           IN  procs' = [procs EXCEPT ![p] = pr, ![c] = Child(pr, p, "rhc_open")]
        /\ SetWorld(Info(World, r, STDOUT_FILENO))
        /\ hist' = [hist EXCEPT !.forks = @ + 1]
        /\ UNCHANGED driver
     \/ Fail(p, r)

\* child, after dup2(fd, STDOUT_FILENO): close(pipefd[0]), then the test
\* is_special_feature(tail); fd is left open.
OldRHChildCloseRead(p) ==
  /\ Code(p, "rhc_close")
  /\ LET r == procs[p]
         f == CloseFd(r.fds, r.pipefd.r)
     IN  \/ /\ procs' = [procs EXCEPT ![p] =
                           IF is_special_feature(r.tail) > 0
                             THEN [r EXCEPT !.fds = f, !.pc = "orc_dup2"]
                             ELSE [r EXCEPT !.fds = f, !.argv = r.head, !.pc = "exec"]]
            /\ SetWorld(Info(World, [r EXCEPT !.fds = f], STDOUT_FILENO))
            /\ UNCHANGED <<driver, hist>>
         \/ Fail(p, r)

\* child, when tail holds an operator: dup2(pipefd[1], STDOUT_FILENO),
\* fd = open(tail[2], ...), dup2(fd, STDOUT_FILENO), then exec(head).
OldRHChildTail(p) ==
  LET r == procs[p] IN
  \/ /\ Code(p, "orc_dup2")
     /\ \/ /\ procs' = [procs EXCEPT ![p].fds = Dup2(r.fds, r.pipefd.w, STDOUT_FILENO),
                                     ![p].pc = "orc_open"]
           /\ Quiet
           /\ UNCHANGED <<driver, hist>>
        \/ Fail(p, r)
  \/ /\ Code(p, "orc_open")
     /\ LET fd == LowFd(r.fds) IN
        \/ /\ Len(r.tail) >= 3 /\ fd <= MaxFd
           /\ procs' = [procs EXCEPT ![p].fds = [r.fds EXCEPT ![fd] = FileD(r.tail[3], r.type = 1)],
                                     ![p].fd = fd, ![p].pc = "orc_dup2f"]
           /\ SetWorld([World EXCEPT !.files = Opened(@, r.tail[3], r.type)])
           /\ UNCHANGED <<driver, hist>>
        \/ Fail(p, r)
  \/ /\ Code(p, "orc_dup2f")
     /\ \/ /\ procs' = [procs EXCEPT ![p].fds = Dup2(r.fds, r.fd, STDOUT_FILENO),
                                     ![p].argv = r.head, ![p].pc = "exec"]
           /\ Quiet
           /\ UNCHANGED <<driver, hist>>
        \/ Fail(p, r)

\* parent: waitpid(p_id, &status, 0), then exit(EXIT_FAILURE) at the end of
\* the handler.
OldRHParentWait(p) ==
  /\ Code(p, "rhp_wait")
  /\ LET r == procs[p] IN
     /\ Waited(procs, r.child)
     /\ procs' = [procs EXCEPT ![r.child] = Collected(procs, r.child),
                               ![p] = Exited(r, EXIT_FAILURE)]
     /\ \/ /\ SetWorld(Info(World, r, STDOUT_FILENO))
           /\ hist' = [hist EXCEPT !.head = procs[r.child].status]
        \/ /\ SetWorld(Perror(World, r))
           /\ hist' = Failed(hist)
     /\ UNCHANGED driver

\* execvp(cmd[0], cmd) in exec without a path file: the image is replaced, or
\* perror and exit(EXIT_FAILURE).  With an empty vector cmd[0] is the null
\* pointer: SIGSEGV, or a failed execvp.
OldExecvp(p) ==
  /\ Code(p, "execvp")
  /\ ~driver.path_flag
  /\ LET r == procs[p] IN
     IF r.argv # <<>> /\ Resolves(r.argv[1])
       THEN /\ procs' = [procs EXCEPT ![p] = Launched(r)]
            /\ UNCHANGED <<pipes, files, term>>
       ELSE \/ /\ procs' = [procs EXCEPT ![p] = Exited(r, EXIT_FAILURE)]
               /\ SetWorld(Perror(World, r))
            \/ /\ r.argv = <<>>
               /\ procs' = [procs EXCEPT ![p] = Killed(r, "SIGSEGV")]
               /\ Quiet
  /\ UNCHANGED <<driver, hist>>

NextOld ==
  \/ OldDriverRead \/ OldEDFork \/ OldEDWait
  \/ \E p \in Pids :
       \/ EDChild(p) \/ Exec(p) \/ OldExecvp(p)
       \/ PHPipe(p) \/ PHFork(p) \/ PHChildCloseRead(p) \/ PHChildDup2(p) \/ OldPHChildExec(p)
       \/ PHParentWait(p) \/ PHParentDup2(p) \/ PHParentCloseRead(p) \/ PHParentCloseWrite(p)
       \/ OldRHPipe(p) \/ OldRHFork(p) \/ RHChildOpen(p) \/ RHChildDup2(p)
       \/ OldRHChildCloseRead(p) \/ OldRHChildTail(p) \/ OldRHParentWait(p)
       \/ ImageWrite(p) \/ ImageRead(p)
       \/ \E code \in {EXIT_SUCCESS, EXIT_FAILURE} : ImageExit(p, code)

SpecOld == InitOld /\ [][NextOld]_vars

\* ------------------------------------------------------------- properties
AtExecvp(p) == procs[p].st = "code" /\ procs[p].pc = "execvp"

Stages(cmds) == (Len(cmds) + 1) \div 2

\* exec_dispatch has returned to the driver and no system call failed on the way.
Completed == hist.returned /\ driver.pc = "prompt" /\ ~hist.sysfail

\* C1: a line of N programs joined only by `|` never creates more than N
\* processes and N-1 pipes, and once exec_dispatch has returned without a
\* failed system call it has created exactly N processes and N-1 pipes,
\* whether or not the programs can be launched.
C1_ChainProcessesAndPipes ==
  hist.cmds \in Chains =>
    /\ hist.forks <= Stages(hist.cmds)
    /\ hist.npipes <= Stages(hist.cmds) - 1
    /\ Completed => /\ hist.forks = Stages(hist.cmds)
                    /\ hist.npipes = Stages(hist.cmds) - 1

C1_Witness ==
  /\ Completed
  /\ hist.cmds = << <<"n">>, PIPE, <<"b">>, PIPE, <<"n">> >>
  /\ hist.forks = 3 /\ hist.npipes = 2

ABC == << <<"a">>, PIPE, <<"b">>, PIPE, <<"c">> >>

\* C2: for `a | b | c`, when a stage's process is at its execvp call: a writes
\* to the first pipe and reads what the shell reads, b reads the first pipe and
\* writes to the second, c reads the second pipe and writes where the shell
\* writes.
C2_ThreeStageWiring ==
  hist.cmds = ABC =>
    \A p \in Pids : AtExecvp(p) =>
      LET f == procs[p].fds IN
      /\ procs[p].argv = <<"a">> =>
           f[STDIN_FILENO] = procs[0].fds[STDIN_FILENO] /\ f[STDOUT_FILENO] = PipeW(1)
      /\ procs[p].argv = <<"b">> =>
           f[STDIN_FILENO] = PipeR(1) /\ f[STDOUT_FILENO] = PipeW(2)
      /\ procs[p].argv = <<"c">> =>
           f[STDIN_FILENO] = PipeR(2) /\ f[STDOUT_FILENO] = procs[0].fds[STDOUT_FILENO]

C2_Witness ==
  /\ hist.cmds = ABC
  /\ \E p \in Pids : /\ AtExecvp(p) /\ procs[p].argv = <<"b">>
                     /\ procs[p].fds[STDIN_FILENO] = PipeR(1)
                     /\ procs[p].fds[STDOUT_FILENO] = PipeW(2)

\* C3: a process of a pipe chain that is at its execvp call holds a pipe end on
\* no descriptor but standard input and standard output, and the two
\* descriptors pipe() gave it are closed, in brief and in verbose mode.
C3_NoStrayPipeEnd ==
  \A p \in Pids : AtExecvp(p) /\ procs[p].pipefd.r # 0 =>
    /\ \A fd \in Fds : fd > STDOUT_FILENO => procs[p].fds[fd].k \notin {"r", "w"}
    /\ procs[p].fds[procs[p].pipefd.r] = Closed
    /\ procs[p].fds[procs[p].pipefd.w] = Closed

C3_Witness ==
  \E p \in Pids : /\ AtExecvp(p) /\ procs[p].verbose_flag
                  /\ hist.npipes = 2
                  /\ procs[p].fds[STDIN_FILENO].k = "r"
                  /\ procs[p].fds[STDOUT_FILENO].k = "w"

\* C4: for `head | tail` the pipe holds, after what tail has read already,
\* exactly the bytes head wrote next, in order; no process holds the write end
\* while tail's image runs; and exec_dispatch returns Success when tail exited
\* with code 0.
C4_TailReadsWhatHeadWrote ==
  Len(hist.cmds) = 3 /\ hist.cmds[2] = PIPE =>
    /\ Len(pipes) >= 1 =>
         \A i \in 1..Len(pipes[1].buf) :
           pipes[1].buf[i] = Byte("data", pipes[1].nread + i, 2)
    /\ \A p \in Pids : Image(p) /\ procs[p].fds[STDOUT_FILENO] = PipeW(1) =>
         Len(pipes[1].buf) = procs[p].nw
    /\ \A p \in Pids : Image(p) /\ procs[p].fds[STDIN_FILENO] = PipeR(1) =>
         Writers(procs, 1) = {}
    /\ hist.returned /\ hist.status = [how |-> "exit", code |-> EXIT_SUCCESS, sig |-> ""] =>
         hist.rc = EXIT_SUCCESS

\* C5: while the driver is at its prompt, about to read a line, no process
\* created for an earlier line is still running.
C5_NoProcessLeftAtPrompt ==
  driver.pc = "prompt" => \A p \in Pids : ~Alive(procs, p)

C5_Witness ==
  /\ driver.pc = "prompt" /\ hist.returned
  /\ hist.cmds \in Nested
  /\ hist.forks = 3

\* The data bytes 1..n of process p, as they lie in a file.
Output(p, n) == [i \in 1..n |-> Byte("data", i, p)]

IsOutput(data, p) == data = Output(p, Len(data))

\* C6: while the program of `program > outfile` runs, outfile holds exactly
\* what it has written so far, and once the command has completed outfile
\* exists and holds what the program wrote and nothing else.
C6_OverwriteHoldsProgramOutput ==
  Len(hist.cmds) = 3 /\ hist.cmds[2] = OVERWRITE =>
    /\ \A p \in Pids : Image(p) => files[hist.cmds[3]] = Output(p, procs[p].nw)
    /\ Completed => /\ hist.cmds[3] \in DOMAIN files
                    /\ IsOutput(files[hist.cmds[3]], 2)

\* The content a file had when the line was dispatched, nothing if absent.
Prior(name) == IF name \in DOMAIN hist.before THEN hist.before[name] ELSE <<>>

\* C7: while the program of `program >> outfile` runs, outfile holds its prior
\* content followed by what the program has written so far, and once the
\* command has completed outfile exists and holds its prior content followed
\* by what the program wrote and nothing else.
C7_AppendKeepsPriorContent ==
  Len(hist.cmds) = 3 /\ hist.cmds[2] = APPEND =>
    /\ \A p \in Pids : Image(p) =>
         files[hist.cmds[3]] = Prior(hist.cmds[3]) \o Output(p, procs[p].nw)
    /\ Completed =>
         /\ hist.cmds[3] \in DOMAIN files
         /\ LET data == files[hist.cmds[3]]
                k    == Len(Prior(hist.cmds[3]))
            IN  /\ Len(data) >= k
                /\ SubSeq(data, 1, k) = Prior(hist.cmds[3])
                /\ IsOutput(SubSeq(data, k + 1, Len(data)), 2)

\* C8: in environment mode, after a simple command whose name cannot be
\* resolved the terminal shows the not-a-valid-command message and no perror
\* text, and exec_dispatch has returned Failure, in either mode.
C8_NotFoundIsReported ==
  Completed /\ hist.cmds = << <<"n">> >> /\ ~driver.path_flag =>
    /\ "notvalid" \in term
    /\ "perror" \notin term
    /\ hist.rc = -1

\* C9: once a process was created for a command line, the shell ends only on
\* the exit command, end of input, a read error or an allocation failure, all
\* of which belong to a later prompt cycle.
C9_ShellOutlivesCommand ==
  hist.forks > 0 /\ driver.pc = "done" => driver.why \in {"exit", "eof", "read", "alloc"}

\* C10: the value exec_dispatch returns is Success exactly when the child
\* exited with code 0, differs from Success and from Failure when the child was
\* ended by SIGINT or SIGQUIT, and is Failure in every other case.
C10_ThreeResults ==
  hist.returned =>
    IF hist.status = [how |-> "exit", code |-> EXIT_SUCCESS, sig |-> ""]
      THEN hist.rc = EXIT_SUCCESS
    ELSE IF KilledByUser(hist.status) THEN hist.rc \notin {EXIT_SUCCESS, -1}
    ELSE hist.rc = -1

\* C11: the killed-by-the-user report is on the terminal exactly when
\* exec_dispatch has returned and the status its wait() stored says the child
\* was terminated by SIGINT or SIGQUIT; never after an exit code or any other
\* signal.
C11_KilledReportOnlyForUserSignals ==
  "killed" \in term <=>
    /\ hist.returned
    /\ hist.status.how = "sig"
    /\ hist.status.sig \in {"SIGINT", "SIGQUIT"}

C11_Witness ==
  /\ hist.returned /\ "killed" \in term
  /\ hist.status = [how |-> "sig", code |-> 0, sig |-> "SIGQUIT"]

\* C12: an interrupt or quit signal sent to the foreground process group while
\* a command is running never ends the shell process.
C12_InterruptSparesShell ==
  hist.forks > 0 => procs[0].st = "code" /\ procs[0].status.how # "sig"

\* C13: no process created by fork is ever in the driver's loop: it runs
\* handler or exec code, is a launched image, or has ended.
C13_ChildNeverInDriverLoop ==
  \A p \in Pids : procs[p].pc # "driver" /\ procs[p].pc # "prompt"

\* The handler of `n > f` returned 0 in the child of exec_dispatch, which
\* left through _Exit.
C13_Witness ==
  /\ hist.cmds = << <<"n">>, OVERWRITE, <<"f">> >>
  /\ hist.forks = 2
  /\ procs[1].st = "zombie"
  /\ procs[1].status = [how |-> "exit", code |-> EXIT_SUCCESS, sig |-> ""]

\* C14: the shell process always holds exactly its three standard streams,
\* as they were at the start, has no saved copy of stdout, and runs only the
\* driver and exec_dispatch's parent branch, never a handler or exec.
C14_ShellDescriptorsUntouched ==
  procs[0].st = "code" =>
    /\ procs[0].fds = StdFds
    /\ ~procs[0].stdout_flag /\ procs[0].saved_stdout = 0
    /\ procs[0].pc = "driver"

C14_Witness ==
  /\ hist.returned /\ driver.pc = "prompt"
  /\ hist.cmds \in Nested /\ hist.npipes = 1 /\ hist.forks = 3
  /\ <<"f">> \in DOMAIN files
  /\ procs[0].fds = StdFds

\* What the text calls a separator and a word character.
Separators == {" ", "\t", "\n"}

\* The maximal runs of non-separator characters of a line, left to right.
Runs(line) ==
  LET word(k) == k \in 1..Len(line) /\ line[k] \notin Separators
      starts  == {s \in 1..Len(line) : word(s) /\ ~word(s - 1)}
      end(s)  == CHOOSE e \in s..Len(line) : (\A k \in s..e : word(k)) /\ ~word(e + 1)
      nth(k)  == CHOOSE s \in starts : Cardinality({t \in starts : t < s}) = k - 1
  IN  [k \in 1..Cardinality(starts) |-> SubSeq(line, nth(k), end(nth(k)))]

\* The tokenizer call has returned to its caller.
Returned(f) == f.pc \in {"returned", "used", "freed"}

\* C15: a tokenizer call in which no allocation failed returns the maximal
\* runs of non-delimiter characters of its line in their order, in a vector
\* that is NULL when there is none and ends with NULL otherwise, and reports
\* their number.
C15_TokensAreMaximalRuns ==
  \A i \in DOMAIN driver.calls :
    LET f == driver.calls[i] IN
    Returned(f) /\ f.failed = {} =>
      /\ Argv(f.ret) = Runs(f.given)
      /\ f.tok_num = Len(Runs(f.given))
      /\ f.ret = IF Runs(f.given) = <<>> THEN NULL ELSE Append(Runs(f.given), NULL)

C15_Witness ==
  /\ driver.calls[1].given = Example
  /\ driver.calls[1].pc = "returned"
  /\ driver.calls[1].ret = << <<"l", "s">>, <<"-", "l", "a">>, NULL >>
  /\ driver.calls[1].tok_num = 2

\* C16: for a line of delimiters only, the empty line included, the tokenizer
\* returns no token and the driver goes back to its prompt: it never reaches
\* exec_dispatch and no process exists besides the shell.
C16_BlankLineReprompts ==
  LET f == driver.calls[1] IN
  Len(driver.calls) = 1 /\ Range(f.given) \subseteq Separators =>
    /\ Returned(f) => f.ret = NULL /\ f.tok_num = 0
    /\ driver.pc \in {"tokenizer", "prompt", "done"}
    /\ driver.pc = "done" => f.failed # {}
    /\ driver.cmds = <<>>
    /\ hist.forks = 0 /\ \A p \in Pids : procs[p].st = "free"

C16_Witness ==
  /\ driver.calls[1].given = <<" ", "\t", "\n">>
  /\ driver.calls[1].pc = "freed"
  /\ driver.pc = "prompt" /\ driver.command_status = 0

\* C17: while tokenizer calls are in progress the line each was given is
\* never changed, the tokens each has stored so far are the ones it stores
\* when it runs alone, and each returns the vector it returns alone.
C17_CallsDoNotInterfere ==
  \A i \in DOMAIN driver.calls :
    LET f == driver.calls[i] IN
    /\ f.input = f.given
    /\ f.pc = "strtok" /\ f.failed = {} =>
         f.tokens = SubSeq(tokenizer(f.given), 1, f.tok_used)
    /\ Returned(f) /\ f.failed = {} => Argv(f.ret) = tokenizer(f.given)

C17_Witness ==
  /\ Len(driver.calls) = 2
  /\ driver.calls[1].given = <<"a", " ", "b">>
  /\ driver.calls[2].given = <<" ", "a", "\t", "|", "\n">>
  /\ driver.calls[1].pc = "strtok" /\ driver.calls[1].tok_used = 1
  /\ driver.calls[2].pc = "returned"
  /\ driver.calls[2].ret = << <<"a">>, PIPE, NULL >>

\* C18: a failed allocation inside the tokenizer ends the process, and a
\* vector the tokenizer returns holds every token of the line.
C18_AllocationFailureIsFatal ==
  \A i \in DOMAIN driver.calls :
    LET f == driver.calls[i] IN
    /\ f.failed # {} => f.pc \in {"exit", "crash"}
    /\ Returned(f) => Argv(f.ret) = tokenizer(f.given)

\* The operator tokens, and the places of a vector that hold one.
Operators == { <<"|">>, <<">">>, <<">", ">">> }

OperatorPlaces(argv) == {n \in 1..Len(argv) : argv[n] \in Operators}

\* C19: the type a process got from is_special_feature is that of the
\* operator token at the smallest index of its vector (1 for `>>`, 2 for `>`,
\* 3 for `|`) and 0 when no token is an operator, a word such as a|b not
\* being one; the vector is as it was and nothing was printed or created.
C19_FirstOperatorClassifies ==
  \A p \in Pids :
    LET r == procs[p] IN
    r.st = "code" /\ r.pc \in {"sc_malloc", "exec"} /\ hist.forks = 1 =>
      /\ r.cmd = hist.cmds
      /\ term = {} /\ pipes = <<>> /\ DOMAIN files = {}
      /\ IF OperatorPlaces(r.cmd) = {}
           THEN r.type = 0 /\ r.pc = "exec"
           ELSE LET n == CHOOSE m \in OperatorPlaces(r.cmd) :
                           \A q \in OperatorPlaces(r.cmd) : m <= q
                IN  /\ r.pc = "sc_malloc"
                    /\ r.cmd[n] = <<">", ">">> => r.type = 1
                    /\ r.cmd[n] = <<">">> => r.type = 2
                    /\ r.cmd[n] = <<"|">> => r.type = 3

C19_Witness ==
  /\ procs[1].pc = "sc_malloc" /\ procs[1].type = 3
  /\ procs[1].cmd = << <<"a", "|", "b">>, PIPE, <<"a">>, APPEND, <<"a">> >>

\* C20: when special_command hands its two vectors to a handler, head is the
\* tokens before the first operator of argv and tail the tokens after it:
\* head, that operator and tail in this order are argv, and head holds no
\* operator.
C20_SplitReconstructsArgv ==
  \A p \in Pids :
    LET r == procs[p] IN
    r.st = "code" /\ r.pc \in {"ph_pipe", "rh_fork"} =>
      \E n \in OperatorPlaces(r.cmd) :
        /\ r.head = SubSeq(r.cmd, 1, n - 1)
        /\ OperatorPlaces(r.head) = {}
        /\ r.tail = SubSeq(r.cmd, n + 1, Len(r.cmd))
        /\ r.head \o <<r.cmd[n]>> \o r.tail = r.cmd

\* C21: the vector a process hands to exec, and exec to execvp, holds at
\* least one token and its first token is no operator, whatever line was
\* dispatched.
C21_LauncherArgvNonEmpty ==
  \A p \in Pids :
    procs[p].st = "code" /\ procs[p].pc \in {"exec", "execvp"} =>
      /\ procs[p].argv # <<>>
      /\ procs[p].argv[1] \notin Operators

\* The steps of a redirection's child from its open to its exec.
RedirectionSteps == {"rhc_open", "rhc_save", "rhc_dup2", "rhc_close"}

\* C22: for `head > file` and `head >> file` at top level exec_dispatch's
\* fork is the only one: the process that opens the destination and rewires
\* its standard output is the child of the shell.
C22_RedirectionInDispatchChild ==
  hist.cmds \in Redirections =>
    /\ hist.forks <= 1
    /\ \A p \in Pids :
         procs[p].st = "code" /\ procs[p].pc \in RedirectionSteps => procs[p].parent = 0

\* The destination as the child of a redirection has it open.
Destination(r) == FileD(r.tail[1], r.type = 1)

\* C23: the child of a redirection opens the destination, then duplicates it
\* onto standard output, then closes the descriptor open returned, then
\* launches head: at execvp its standard output is the destination and that
\* descriptor is closed, and after a failed step head is not launched.
C23_OpenDupCloseLaunch ==
  \A p \in Pids :
    LET r == procs[p] IN
    /\ r.st = "code" /\ r.pc \in {"rhc_save", "rhc_dup2"} =>
         r.fds[r.fd] = Destination(r) /\ r.fds[STDOUT_FILENO].k # "file"
    /\ r.st = "code" /\ r.pc = "rhc_close" =>
         r.fds[r.fd] = Destination(r) /\ r.fds[STDOUT_FILENO] = Destination(r)
    /\ r.st = "code" /\ r.pc \in {"exec", "execvp"} /\ r.fd # 0 =>
         /\ r.fds[STDOUT_FILENO] = Destination(r)
         /\ r.fds[r.fd] = Closed
         /\ r.argv = r.head
    /\ hist.fdfail =>
         ~(r.st \in {"code", "image"} /\ r.parent # 0 /\ procs[r.parent].pc = "rhp_wait"
             /\ procs[r.parent].child = p)

C23_Witness ==
  \E p \in Pids :
    /\ AtExecvp(p) /\ procs[p].verbose_flag
    /\ hist.cmds = << <<"a">>, APPEND, <<"f">> >>
    /\ procs[p].fd > STDERR_FILENO
    /\ procs[p].fds[STDOUT_FILENO] = FileD(<<"f">>, TRUE)
    /\ procs[p].fds[procs[p].fd] = Closed

\* C24: after a failed open, dup, dup2 or close in the child of a redirection
\* the error is reported, the shell is alive, and exec_dispatch, once it has
\* returned, has returned Failure and the driver is at its prompt.
C24_DescriptorFailureFailsCommand ==
  hist.fdfail =>
    /\ "perror" \in term
    /\ procs[0].st = "code"
    /\ hist.returned => hist.rc = -1 /\ driver.pc = "prompt"

\* C25: for `a > f | b` a pipe has been created, and for `a > f > g` the file
\* g has been opened, by the time the head a is at its execvp call: the tail's
\* own operator was handled before head is launched.
C25_TailHandledBeforeHead ==
  \A p \in Pids :
    AtExecvp(p) /\ procs[p].argv = <<"a">> =>
      /\ hist.cmds = << <<"a">>, OVERWRITE, <<"f">>, PIPE, <<"b">> >> => hist.npipes >= 1
      /\ hist.cmds = << <<"a">>, OVERWRITE, <<"f">>, OVERWRITE, <<"g">> >> =>
           <<"g">> \in DOMAIN files

\* C26: a line whose first operator, at place n, is a redirection does what
\* `head > tail[0]` alone does, whatever follows tail[0]: no file but the one
\* named by token n + 1 is created or changed, head is launched with the
\* tokens before n, two processes are created and no pipe.
C26_OnlyFirstTailTokenCounts ==
  LET cmd == hist.cmds
      ops == OperatorPlaces(cmd)
  IN  ops # {} =>
        LET n == CHOOSE m \in ops : \A q \in ops : m <= q IN
        n > 1 /\ n < Len(cmd) /\ cmd[n] # <<"|">> =>
          /\ DOMAIN files \subseteq DOMAIN hist.before \cup {cmd[n + 1]}
          /\ \A f \in DOMAIN hist.before \ {cmd[n + 1]} :
               f \in DOMAIN files /\ files[f] = hist.before[f]
          /\ \A p \in Pids :
               AtExecvp(p) \/ Image(p) => procs[p].argv = SubSeq(cmd, 1, n - 1)
          /\ \A p \in Pids :
               procs[p].st = "code" /\ procs[p].pc \in {"rhc_save", "rhc_dup2", "rhc_close"} =>
                 procs[p].fds[procs[p].fd].fn = cmd[n + 1]
          /\ hist.forks <= 2 /\ hist.npipes = 0
          /\ Completed => hist.forks = 2

C26_Witness ==
  /\ Completed
  /\ hist.cmds = << <<"a">>, OVERWRITE, <<"f">>, PIPE, <<"b">> >>
  /\ hist.forks = 2 /\ hist.npipes = 0
  /\ DOMAIN files = { <<"f">> }
  /\ Len(files[<<"f">>]) = MaxWrite

\* C27, in the spec's wording: in `a | b | c` the middle stage b is launched by a
\* process that has itself forked and waited for the stage before it.
C27_MiddleStageReplacesWaiter ==
  hist.cmds = ABC =>
    \A p \in Pids : AtExecvp(p) /\ procs[p].argv = <<"b">> => procs[p].child # 0

\* C27: in a pipe chain of N >= 3 stages every stage but the last is launched
\* by a process newly forked by the child of exec_dispatch, which waits for
\* it and has forked nothing itself; the child of exec_dispatch forks and
\* waits for each of them in turn and is the one process that launches the
\* last stage.
C27_OnlyLastStageReplacesWaiter ==
  hist.cmds \in Chains /\ Stages(hist.cmds) >= 3 =>
    \A p \in Pids : AtExecvp(p) =>
      LET r == procs[p]
          k == hist.forks - 1
      IN  IF r.parent = 0
            THEN /\ hist.forks = Stages(hist.cmds)
                 /\ r.argv = <<hist.cmds[Len(hist.cmds)]>>
                 /\ r.child # 0 /\ ~Alive(procs, r.child)
            ELSE /\ k < Stages(hist.cmds)
                 /\ r.argv = <<hist.cmds[2 * k - 1]>>
                 /\ r.child = 0
                 /\ procs[r.parent].parent = 0
                 /\ procs[r.parent].pc = "php_wait" /\ procs[r.parent].child = p

C27_Witness ==
  /\ hist.cmds = ABC /\ hist.forks = 3
  /\ \E p \in Pids : /\ AtExecvp(p) /\ procs[p].argv = <<"b">>
                     /\ procs[p].child = 0 /\ procs[p].parent = 1
                     /\ procs[1].pc = "php_wait" /\ procs[1].child = p

\* The path names execvp can replace the image with.
Executable == Launchable \cup {Dir \o n : n \in Launchable}

\* The one candidate exec forms: its first path entry followed by argv[0].
Candidate(argv) == driver.path[1] \o argv[1]

C29_EmptyListUsesEnvironment ==
  /\ driver.path_flag
  /\ driver.path \in { <<u>> : u \in Uninit }
  /\ Completed /\ hist.cmds = << <<"a">> >>
  => "perror" \notin term /\ "invalid" \notin term

\* C30: in a pipe chain the process that goes on with the tail does so only
\* once the process it forked for the head has terminated, so at most one
\* program of the chain runs at a time, and the program that reads a pipe
\* runs when nothing can write to it any more.
C30_StagesNeverOverlap ==
  hist.cmds \in Chains =>
    /\ Cardinality({p \in Pids : Image(p)}) <= 1
    /\ \A p \in Pids :
         procs[p].st = "code" /\ procs[p].pc \in {"php_dup2", "php_close_r", "php_close_w"} =>
           /\ ~Alive(procs, procs[p].child)
           /\ \A q \in Pids : ~Image(q)
    /\ \A p \in Pids :
         Image(p) /\ procs[p].fds[STDIN_FILENO].k = "r" =>
           Writers(procs, procs[p].fds[STDIN_FILENO].pi) = {}

C30_Witness ==
  /\ hist.cmds = ABC /\ hist.forks = 3
  /\ procs[1].st = "code" /\ procs[1].pc = "php_dup2"
  /\ procs[procs[1].child].st = "reaped"
  /\ Len(pipes[2].buf) = PipeCap

\* C31: a program of a pipe chain that has output left to write is never
\* stopped by a full pipe whose only reader is the process waiting for that
\* program to terminate; such a program cannot finish, so neither the chain
\* nor exec_dispatch ever would.
C31_NoWriterWaitsOnItsWaiter ==
  \A p \in Pids :
    LET d == procs[p].fds[STDOUT_FILENO] IN
    /\ Image(p) /\ d.k = "w" /\ procs[p].nw < MaxWrite
    /\ Len(pipes[d.pi].buf) = PipeCap /\ Readers(procs, d.pi) # {}
    =>
      \E q \in Readers(procs, d.pi) :
        ~(procs[q].st = "code" /\ procs[q].pc = "php_wait" /\ procs[q].child = p)

\* C32: special_command never stores outside the elements allocated for
\* head or for tail: each array holds at most as many elements as were
\* allocated for it, no store overflowed and no process was aborted for one.
C32_StoresWithinAllocation ==
  \A p \in Pids :
    LET c == procs[p].sc IN
    /\ ~c.ub
    /\ Len(c.head) <= c.size.head
    /\ Len(c.tail) <= c.size.tail
    /\ procs[p].status.sig # "SIGABRT"

\* Exit with code 0.
ExitedOk == [how |-> "exit", code |-> EXIT_SUCCESS, sig |-> ""]

\* C33: for `head > file` and `head >> file`, once exec_dispatch has returned
\* with no failed system call its result is Success when head's process
\* exited with code 0 and Failure in every other case: head not launched,
\* a non-zero code, a signal.
C33_RedirectionResultIsHeadStatus ==
  Completed /\ hist.cmds \in Redirections =>
    hist.rc = IF hist.head = ExitedOk THEN EXIT_SUCCESS ELSE -1

\* C34: for a chain joined only by `|`, once exec_dispatch's wait has stored
\* a status, the result is Success when the last program was launched (it is
\* the image of exec_dispatch's own child) and exited with code 0, and Failure
\* otherwise, whatever became of the earlier stages.
C34_ChainResultIsLastStage ==
  hist.cmds \in Chains /\ Len(hist.cmds) >= 3 /\ hist.returned /\ hist.status # NoStatus =>
    hist.rc = IF hist.last = ExitedOk THEN EXIT_SUCCESS ELSE -1

\* The first program of `n | b` cannot be launched; b exits with code 0.
C34_Witness ==
  /\ hist.cmds = << <<"n">>, PIPE, <<"b">> >>
  /\ hist.returned /\ hist.forks = 2
  /\ hist.last = ExitedOk /\ hist.rc = EXIT_SUCCESS

\* C35: from the open in a redirection's child until head is launched the
\* destination exists, empty for `>` and with its prior content for `>>`;
\* and in brief mode, after `n > f` or `n >> f` with a head n that cannot be
\* launched, it still exists and holds just that.
C35_DestinationOpenedBeforeLaunch ==
  /\ \A p \in Pids :
       LET r == procs[p] IN
       /\ r.st = "code"
       /\ r.pc \in {"rhc_save", "rhc_dup2", "rhc_close"} \/ (r.pc \in {"exec", "execvp"} /\ r.fd # 0)
       => /\ r.tail[1] \in DOMAIN files
          /\ files[r.tail[1]] = IF r.type = 2 THEN <<>> ELSE Prior(r.tail[1])
  /\ Completed /\ ~procs[0].verbose_flag /\ hist.cmds \in Redirections
       /\ hist.cmds[1] = <<"n">>
     => /\ hist.cmds[3] \in DOMAIN files
        /\ files[hist.cmds[3]] = IF hist.cmds[2] = OVERWRITE THEN <<>> ELSE Prior(hist.cmds[3])

\* `n > f` has emptied a file that held something.
C35_Witness ==
  /\ Completed /\ ~procs[0].verbose_flag
  /\ hist.cmds = << <<"n">>, OVERWRITE, <<"f">> >>
  /\ Len(Prior(<<"f">>)) > 0
  /\ files[<<"f">>] = <<>>

\* C36: every byte in a pipe was written by a launched program, and so was
\* every byte a file has got since the line was dispatched: no message of the
\* shell is among them, in verbose mode as in brief mode.
C36_OnlyProgramsWriteRedirected ==
  /\ \A i \in 1..Len(pipes) : \A k \in 1..Len(pipes[i].buf) : pipes[i].buf[k].c = "data"
  /\ \A n \in DOMAIN files : \A k \in 1..Len(files[n]) : files[n][k].c \in {"data", "old", "nul"}

\* C37: in the variant, a fork or wait failure in exec_dispatch is reported
\* and leaves the shell running, in its loop.
C37_DispatchFailureKeepsShell ==
  driver.why \in {"fork", "wait"} => procs[0].st = "code" /\ driver.pc # "done"

\* C38: in the variant, a process forked by pipe_handle, overwrite_handle or
\* append_handle has, when it calls execvp, no descriptor open but its three
\* standard streams.
C38_OnlyStandardStreamsAtLaunch ==
  \A p \in Pids :
    AtExecvp(p) /\ procs[p].parent # 0 =>
      \A fd \in Fds : fd > STDERR_FILENO => procs[p].fds[fd].k = "closed"

\* C39: in the variant, the tokens the driver dispatches come from a line the
\* fgets of that pass stored, and once fgets has reported the end of input the
\* driver is out of its loop.
C39_DispatchOnlyWhatWasRead ==
  /\ driver.pc = "dispatch" => driver.read
  /\ driver.eof => driver.pc = "done"

====
